---- MODULE Spec2Model ----
(***************************************************************************)
(* Model of claude_visualizer: the content-block renderers, the message    *)
(* assembler (visualize_message) and the process-wide current theme.       *)
(*                                                                         *)
(* Python values are tagged records [ty, val]:                             *)
(*   "str"  a sequence of one-character strings                            *)
(*   "int"  an integer          "bool" a boolean        "none" None        *)
(*   "dict" a sequence of [key, value] entries in insertion order          *)
(*   "list" a sequence of values                                           *)
(* An absent dict key is a key no entry holds.                             *)
(***************************************************************************)
EXTENDS Integers, Sequences, FiniteSets

VARIABLES current_theme, ipython, message_in, theme_in, pc, tree_out, console_out, exc_out

\* cli.py, main(): the command line, the input it reads, its position, the
\* exit code of the process and the messages main itself prints
VARIABLES args, env, main_pc, exit_code, main_out

main_vars == <<args, env, main_pc, exit_code, main_out>>

\* hooks.py, one visualize object: its position (constructed, inside the
\* with-block, after it), its auto_show and responses attributes, the
\* arguments of the capture() calls made, and the visualize_response calls made
VARIABLES hook_pc, auto_show, responses, captured, visualized

hook_vars == <<hook_pc, auto_show, responses, captured, visualized>>

vars == <<current_theme, ipython, message_in, theme_in, pc, tree_out, console_out, exc_out,
          args, env, main_pc, exit_code, main_out,
          hook_pc, auto_show, responses, captured, visualized>>

---------------------------------------------------------------------------
(* String literals of the source, as character sequences. *)
S_type == <<"t", "y", "p", "e">>
S_text == <<"t", "e", "x", "t">>
S_name == <<"n", "a", "m", "e">>
S_id == <<"i", "d">>
S_input == <<"i", "n", "p", "u", "t">>
S_caller == <<"c", "a", "l", "l", "e", "r">>
S_tool_use_id == <<"t", "o", "o", "l", "_", "u", "s", "e", "_", "i", "d">>
S_is_error == <<"i", "s", "_", "e", "r", "r", "o", "r">>
S_content == <<"c", "o", "n", "t", "e", "n", "t">>
S_return_code == <<"r", "e", "t", "u", "r", "n", "_", "c", "o", "d", "e">>
S_stdout == <<"s", "t", "d", "o", "u", "t">>
S_stderr == <<"s", "t", "d", "e", "r", "r">>
S_code == <<"c", "o", "d", "e">>
S_input_tokens == <<"i", "n", "p", "u", "t", "_", "t", "o", "k", "e", "n", "s">>
S_output_tokens == <<"o", "u", "t", "p", "u", "t", "_", "t", "o", "k", "e", "n", "s">>
S_unknown == <<"u", "n", "k", "n", "o", "w", "n">>
S_direct == <<"d", "i", "r", "e", "c", "t">>
S_code_execution_20250825 == <<"c", "o", "d", "e", "_", "e", "x", "e", "c", "u", "t", "i", "o", "n", "_", "2", "0", "2", "5", "0", "8", "2", "5">>
S_tool_use == <<"t", "o", "o", "l", "_", "u", "s", "e">>
S_tool_result == <<"t", "o", "o", "l", "_", "r", "e", "s", "u", "l", "t">>
S_server_tool_use == <<"s", "e", "r", "v", "e", "r", "_", "t", "o", "o", "l", "_", "u", "s", "e">>
S_code_execution_tool_result == <<"c", "o", "d", "e", "_", "e", "x", "e", "c", "u", "t", "i", "o", "n", "_", "t", "o", "o", "l", "_", "r", "e", "s", "u", "l", "t">>
S_raw == <<"r", "a", "w">>
S_role == <<"r", "o", "l", "e">>
S_model == <<"m", "o", "d", "e", "l">>
S_stop_reason == <<"s", "t", "o", "p", "_", "r", "e", "a", "s", "o", "n">>
S_usage == <<"u", "s", "a", "g", "e">>

---------------------------------------------------------------------------
(* Python values and the built-ins the renderers use. *)
PyString(chars) == [ty |-> "str", val |-> chars]
PyInt(n) == [ty |-> "int", val |-> n]
PyBool(b) == [ty |-> "bool", val |-> b]
PyNone == [ty |-> "none", val |-> 0]
PyDict(entries) == [ty |-> "dict", val |-> entries]
PyList(items) == [ty |-> "list", val |-> items]
KV(k, v) == [key |-> k, value |-> v]

\* bool(v): the truth value an `if v:` tests.
Truthy(v) ==
    CASE v.ty = "str" -> Len(v.val) > 0
      [] v.ty = "int" -> v.val # 0
      [] v.ty = "bool" -> v.val
      [] v.ty = "none" -> FALSE
      [] v.ty = "dict" -> Len(v.val) > 0
      [] v.ty = "list" -> Len(v.val) > 0

\* isinstance(v, dict) / isinstance(v, list)
IsDict(v) == v.ty = "dict"
IsList(v) == v.ty = "list"

\* key in d
HasKey(d, key) == \E i \in 1..Len(d.val) : d.val[i].key = key

\* d.get(key, default) on a dict
DictGet(d, key, default) ==
    IF HasKey(d, key)
    THEN d.val[CHOOSE i \in 1..Len(d.val) : d.val[i].key = key].value
    ELSE default

\* v has a .get method (only dicts do, among the values here)
HasGet(v) == IsDict(v)

\* a == b for the comparisons the source makes against a literal
PyEq(a, b) ==
    IF a.ty = b.ty THEN a.val = b.val
    ELSE IF a.ty \in {"int", "bool"} /\ b.ty \in {"int", "bool"}
         THEN (IF a.ty = "bool" THEN (IF a.val THEN 1 ELSE 0) ELSE a.val)
            = (IF b.ty = "bool" THEN (IF b.val THEN 1 ELSE 0) ELSE b.val)
         ELSE FALSE

Digit(d) == <<"0", "1", "2", "3", "4", "5", "6", "7", "8", "9">>[d + 1]

RECURSIVE NatStr(_)
NatStr(n) == IF n < 10 THEN <<Digit(n)>> ELSE NatStr(n \div 10) \o <<Digit(n % 10)>>

\* str(n) of an int
IntStr(n) == IF n < 0 THEN <<"-">> \o NatStr(0 - n) ELSE NatStr(n)

RECURSIVE Concat(_)
Concat(seqs) == IF seqs = <<>> THEN <<>> ELSE Head(seqs) \o Concat(Tail(seqs))

\* sep.join(parts)
RECURSIVE Join(_, _)
Join(parts, sep) ==
    IF parts = <<>> THEN <<>>
    ELSE IF Len(parts) = 1 THEN parts[1]
    ELSE parts[1] \o sep \o Join(Tail(parts), sep)

\* repr() of a string's characters (strings without a single quote)
ReprEscape(chars) ==
    IF \A i \in 1..Len(chars) : chars[i] \notin {"\n", "\\"} THEN chars
    ELSE
    Concat([i \in 1..Len(chars) |->
              CASE chars[i] = "\n" -> <<"\\", "n">>
                [] chars[i] = "\\" -> <<"\\", "\\">>
                [] OTHER -> <<chars[i]>>])

RECURSIVE PyRepr(_)
PyRepr(v) ==
    CASE v.ty = "str" -> <<"'">> \o ReprEscape(v.val) \o <<"'">>
      [] v.ty = "int" -> IntStr(v.val)
      [] v.ty = "bool" -> IF v.val THEN <<"T", "r", "u", "e">> ELSE <<"F", "a", "l", "s", "e">>
      [] v.ty = "none" -> <<"N", "o", "n", "e">>
      [] v.ty = "dict" ->
           <<"{">> \o Join([i \in 1..Len(v.val) |->
                              <<"'">> \o ReprEscape(v.val[i].key) \o <<"'", ":", " ">>
                              \o PyRepr(v.val[i].value)], <<",", " ">>) \o <<"}">>
      [] v.ty = "list" ->
           <<"[">> \o Join([i \in 1..Len(v.val) |-> PyRepr(v.val[i])], <<",", " ">>) \o <<"]">>

\* str(v), which is also what an f-string interpolates
PyStr(v) == IF v.ty = "str" THEN v.val ELSE PyRepr(v)

\* text[:n]
Slice(chars, n) == SubSeq(chars, 1, IF Len(chars) < n THEN Len(chars) ELSE n)

---------------------------------------------------------------------------
(* json.dumps(data, indent=2) *)
JsonEscape(chars) ==
    IF \A i \in 1..Len(chars) : chars[i] \notin {"\n", "\"", "\\"} THEN chars
    ELSE
    Concat([i \in 1..Len(chars) |->
              CASE chars[i] = "\n" -> <<"\\", "n">>
                [] chars[i] = "\"" -> <<"\\", "\"">>
                [] chars[i] = "\\" -> <<"\\", "\\">>
                [] OTHER -> <<chars[i]>>])

JsonIndent(level) == [i \in 1..(2 * level) |-> " "]

RECURSIVE JsonEncode(_, _)
JsonEncode(v, level) ==
    CASE v.ty = "str" -> <<"\"">> \o JsonEscape(v.val) \o <<"\"">>
      [] v.ty = "int" -> IntStr(v.val)
      [] v.ty = "bool" -> IF v.val THEN <<"t", "r", "u", "e">> ELSE <<"f", "a", "l", "s", "e">>
      [] v.ty = "none" -> <<"n", "u", "l", "l">>
      [] v.ty = "dict" ->
           IF v.val = <<>> THEN <<"{", "}">>
           ELSE <<"{", "\n">>
                \o Join([i \in 1..Len(v.val) |->
                           JsonIndent(level + 1) \o <<"\"">> \o JsonEscape(v.val[i].key)
                           \o <<"\"", ":", " ">> \o JsonEncode(v.val[i].value, level + 1)],
                        <<",", "\n">>)
                \o <<"\n">> \o JsonIndent(level) \o <<"}">>
      [] v.ty = "list" ->
           IF v.val = <<>> THEN <<"[", "]">>
           ELSE <<"[", "\n">>
                \o Join([i \in 1..Len(v.val) |->
                           JsonIndent(level + 1) \o JsonEncode(v.val[i], level + 1)],
                        <<",", "\n">>)
                \o <<"\n">> \o JsonIndent(level) \o <<"]">>

json_dumps(data) == JsonEncode(data, 0)

format_json_max_length == 500

\* if len(json_str) > max_length: json_str = json_str[:max_length] + marker
json_truncated(json_str, max_length) ==
    IF Len(json_str) > max_length
    THEN Slice(json_str, max_length)
         \o <<"\n", " ", " ", ".", ".", ".", " ", "(", "t", "r", "u", "n", "c", "a", "t", "e", "d", ")">>
    ELSE json_str

format_json(data, max_length) == json_truncated(json_dumps(data), max_length)

---------------------------------------------------------------------------
(* themes.py: the predefined colour schemes and the current theme. *)
DARK_THEME ==
    [
      title |-> "bold bright_blue",
      role |-> "italic bright_cyan",
      metadata_key |-> "bright_black",
      metadata_value |-> "white",
      content_label |-> "bold white",
      block_label |-> "bright_black",
      text_label |-> "bright_cyan",
      text_content |-> "white",
      tool_use_label |-> "bright_yellow",
      tool_name |-> "bold bright_yellow",
      tool_id |-> "bright_black",
      input_label |-> "bright_green",
      tool_result_label |-> "bright_yellow",
      success |-> "bright_green",
      error |-> "bright_red",
      output_label |-> "bright_cyan",
      unknown_type |-> "bright_magenta",
      panel_border |-> "bright_blue",
      usage_border |-> "bright_magenta",
      usage_header |-> "bold bright_magenta",
      usage_metric |-> "bright_cyan",
      usage_value |-> "bright_green",
      json_theme |-> "monokai"
    ]

LIGHT_THEME ==
    [
      title |-> "bold blue",
      role |-> "italic cyan",
      metadata_key |-> "black",
      metadata_value |-> "black",
      content_label |-> "bold black",
      block_label |-> "black",
      text_label |-> "cyan",
      text_content |-> "black",
      tool_use_label |-> "yellow",
      tool_name |-> "bold yellow",
      tool_id |-> "black",
      input_label |-> "green",
      tool_result_label |-> "yellow",
      success |-> "green",
      error |-> "red",
      output_label |-> "cyan",
      unknown_type |-> "magenta",
      panel_border |-> "blue",
      usage_border |-> "magenta",
      usage_header |-> "bold magenta",
      usage_metric |-> "cyan",
      usage_value |-> "green",
      json_theme |-> "default"
    ]

JUPYTER_THEME ==
    [
      title |-> "bold cyan",
      role |-> "italic green",
      metadata_key |-> "dim white",
      metadata_value |-> "white",
      content_label |-> "bold white",
      block_label |-> "dim white",
      text_label |-> "cyan",
      text_content |-> "white",
      tool_use_label |-> "yellow",
      tool_name |-> "bold yellow",
      tool_id |-> "dim white",
      input_label |-> "green",
      tool_result_label |-> "yellow",
      success |-> "green",
      error |-> "red",
      output_label |-> "cyan",
      unknown_type |-> "magenta",
      panel_border |-> "cyan",
      usage_border |-> "magenta",
      usage_header |-> "bold magenta",
      usage_metric |-> "cyan",
      usage_value |-> "green",
      json_theme |-> "monokai"
    ]

\* A ColorScheme object, by the name of the module-level object referred to.
ColorSchemeOf(ref) ==
    CASE ref = "DARK_THEME" -> DARK_THEME
      [] ref = "LIGHT_THEME" -> LIGHT_THEME
      [] ref = "JUPYTER_THEME" -> JUPYTER_THEME

\* get_theme(theme); importable says whether `import IPython` succeeds.
get_theme(theme, importable) ==
    CASE theme = "dark" -> "DARK_THEME"
      [] theme = "light" -> "LIGHT_THEME"
      [] theme = "jupyter" -> "JUPYTER_THEME"
      [] theme = "auto" -> (IF importable THEN "JUPYTER_THEME" ELSE "DARK_THEME")
      [] OTHER -> "DARK_THEME"

\* get_current_theme() that detects the environment on every call
get_current_theme_redetect(current, importable) == get_theme("auto", importable)

\* get_current_theme(): the value of _current_theme after the call, which is
\* also the value returned.
get_current_theme(current, importable) ==
    IF current = "None" THEN get_theme("auto", importable) ELSE current

---------------------------------------------------------------------------
(* rich renderables.  A label is the sequence of the spans of an f-string: *)
(* [style]fmt[/style] with {} standing for the interpolated arg.           *)
Span(style, fmt, arg) == [style |-> style, fmt |-> fmt, arg |-> arg]
Styled(style, fmt) == Span(style, fmt, <<>>)
Plain(fmt, arg) == Span("", fmt, arg)

\* Tree(label) and the node tree.add(label) makes
Tree(label) ==
    [kind |-> "Tree", label |-> label, text |-> <<>>, style |-> "",
     lexer |-> "", line_numbers |-> FALSE, children |-> <<>>]

\* Text(text, style=style)
Text(text, style) ==
    [kind |-> "Text", label |-> <<>>, text |-> text, style |-> style,
     lexer |-> "", line_numbers |-> FALSE, children |-> <<>>]

\* Syntax(code, lexer, theme=theme, line_numbers=line_numbers)
Syntax(code, lexer, theme, line_numbers) ==
    [kind |-> "Syntax", label |-> <<>>, text |-> code, style |-> theme,
     lexer |-> lexer, line_numbers |-> line_numbers, children |-> <<>>]

\* node.add(child): node with child appended
Add(node, child) == [node EXCEPT !.children = Append(@, child)]

\* What a renderer leaves behind: the tree as it stands when the renderer
\* returns or raises, and the exception raised ("none" when it returns).
Returned(t) == [tree |-> t, exc |-> "none"]
Raised(t, e) == [tree |-> t, exc |-> e]

---------------------------------------------------------------------------
(* visualizer.py: the block renderers.  Each takes the block, the tree it  *)
(* adds to and the colour scheme, and yields the tree and the exception.   *)

\* text_truncated with the comparison off by one: a text of exactly 1000
\* characters is cut too
text_truncated_ge(text) ==
    IF Len(text) >= 1000
    THEN Slice(text, 1000) \o <<"\n", ".", ".", ".", " ", "(", "t", "r", "u", "n", "c", "a", "t", "e", "d", ")">>
    ELSE text

\* render_text_content: if len(text) > 1000
text_truncated(text) ==
    IF Len(text) > 1000
    THEN Slice(text, 1000) \o <<"\n", ".", ".", ".", " ", "(", "t", "r", "u", "n", "c", "a", "t", "e", "d", ")">>
    ELSE text

\* code_truncated showing the code whole
code_truncated_never(text) == text

\* render_server_tool_use: if len(code) > 1000
code_truncated(text) ==
    IF Len(text) > 1000
    THEN Slice(text, 1000) \o <<"\n", ".", ".", ".", " ", "(", "t", "r", "u", "n", "c", "a", "t", "e", "d", ")">>
    ELSE text

\* item_text_truncated with the comparison off by one
item_text_truncated_ge(text) ==
    IF Len(text) >= 1000
    THEN Slice(text, 1000) \o <<"\n", ".", ".", ".", " ", "(", "t", "r", "u", "n", "c", "a", "t", "e", "d", ")">>
    ELSE text

\* render_tool_result, a text item: if len(text) > 1000
item_text_truncated(text) ==
    IF Len(text) > 1000
    THEN Slice(text, 1000) \o <<"\n", ".", ".", ".", " ", "(", "t", "r", "u", "n", "c", "a", "t", "e", "d", ")">>
    ELSE text

\* output_truncated testing one length and cutting at another
output_truncated_wide(text) ==
    IF Len(text) > 1000
    THEN Slice(text, 2000) \o <<"\n", ".", ".", ".", " ", "(", "t", "r", "u", "n", "c", "a", "t", "e", "d", ")">>
    ELSE text

\* render_tool_result, a non-list content: if len(text) > 1000
output_truncated(text) ==
    IF Len(text) > 1000
    THEN Slice(text, 1000) \o <<"\n", ".", ".", ".", " ", "(", "t", "r", "u", "n", "c", "a", "t", "e", "d", ")">>
    ELSE text

\* stdout_truncated with the limit of the other renderers
stdout_truncated_1000(text) ==
    IF Len(text) > 1000
    THEN Slice(text, 1000) \o <<"\n", ".", ".", ".", " ", "(", "t", "r", "u", "n", "c", "a", "t", "e", "d", ")">>
    ELSE text

\* render_code_execution_result: if len(stdout) > 2000
stdout_truncated(text) ==
    IF Len(text) > 2000
    THEN Slice(text, 2000) \o <<"\n", ".", ".", ".", " ", "(", "t", "r", "u", "n", "c", "a", "t", "e", "d", ")">>
    ELSE text

\* render_code_execution_result: if len(stderr) > 2000
stderr_truncated(text) ==
    IF Len(text) > 2000
    THEN Slice(text, 2000) \o <<"\n", ".", ".", ".", " ", "(", "t", "r", "u", "n", "c", "a", "t", "e", "d", ")">>
    ELSE text

\* tool_result_status with the two branches exchanged
tool_result_status_swapped(is_error, theme) ==
    IF Truthy(is_error) THEN Styled(theme.success, "Success")
    ELSE Styled(theme.error, "Error")

\* render_tool_result: the status span
tool_result_status(is_error, theme) ==
    IF Truthy(is_error) THEN Styled(theme.error, "Error")
    ELSE Styled(theme.success, "Success")

\* code_execution_status taking every non-negative return code as success
code_execution_status_nonneg(return_code, theme) ==
    IF return_code.ty = "int" /\ return_code.val >= 0
    THEN Span(theme.success, "Success (exit {})", PyStr(return_code))
    ELSE Span(theme.error, "Error (exit {})", PyStr(return_code))

\* render_code_execution_result: the status span
code_execution_status(return_code, theme) ==
    IF PyEq(return_code, PyInt(0))
    THEN Span(theme.success, "Success (exit {})", PyStr(return_code))
    ELSE Span(theme.error, "Error (exit {})", PyStr(return_code))

\* no_output holding as soon as one of the two streams is empty
no_output_either(stdout, stderr) == ~Truthy(stdout) \/ ~Truthy(stderr)

\* render_code_execution_result: if not stdout and not stderr
no_output(stdout, stderr) == ~Truthy(stdout) /\ ~Truthy(stderr)

render_text_content(content, tree, theme) ==
    LET text == DictGet(content.data, S_text, PyString(<<>>))
    IN  IF ~Truthy(text) THEN Returned(tree)
        ELSE CASE text.ty \in {"int", "bool"} -> Raised(tree, "TypeError")  \* len(text)
               [] text.ty = "str" ->
                    LET shown == text_truncated(text.val)
                        text_node == Tree(<<Styled(theme.text_label, "Text")>>)
                    IN  Returned(Add(tree, Add(text_node, Text(shown, theme.text_content))))

\* caller_label showing every caller type verbatim
caller_label_verbatim(caller_type) == PyStr(caller_type)

\* render_tool_use: the label of the caller type
caller_label(caller_type) ==
    IF PyEq(caller_type, PyString(S_code_execution_20250825))
    THEN <<"c", "o", "d", "e", " ", "e", "x", "e", "c", "u", "t", "i", "o", "n", " ",
           "e", "n", "v", "i", "r", "o", "n", "m", "e", "n", "t">>
    ELSE IF PyEq(caller_type, PyString(S_direct))
    THEN <<"m", "o", "d", "e", "l", " ", "(", "d", "i", "r", "e", "c", "t", ")">>
    ELSE PyStr(caller_type)

render_tool_use(content, tree, theme) ==
    LET tool_name == DictGet(content.data, S_name, PyString(S_unknown))
        tool_id == DictGet(content.data, S_id, PyString(<<>>))
        tool_input == DictGet(content.data, S_input, PyDict(<<>>))
        caller == DictGet(content.data, S_caller, PyDict(<<>>))
        node0 == Tree(<<Styled(theme.tool_use_label, "Tool Use:"), Plain(" ", <<>>),
                        Span(theme.tool_name, "{}", PyStr(tool_name))>>)
        node1 == IF Truthy(tool_id)
                 THEN Add(node0, Tree(<<Styled(theme.tool_id, "ID:"),
                                        Plain(" {}", PyStr(tool_id))>>))
                 ELSE node0
    IN  IF Truthy(caller) /\ ~HasGet(caller)
        THEN Raised(Add(tree, node1), "AttributeError")  \* caller.get
        ELSE
        LET caller_type == DictGet(caller, S_type, PyString(S_unknown))
            node2 == IF Truthy(caller)
                     THEN Add(node1, Tree(<<Styled(theme.metadata_key, "Caller:"),
                                            Plain(" {}", caller_label(caller_type))>>))
                     ELSE node1
            node3 == IF Truthy(tool_input)
                     THEN Add(node2,
                              Add(Tree(<<Styled(theme.input_label, "Input:")>>),
                                  Syntax(format_json(tool_input, format_json_max_length),
                                         "json", theme.json_theme, FALSE)))
                     ELSE node2
        IN  Returned(Add(tree, node3))

render_server_tool_use(content, tree, theme) ==
    LET tool_id == DictGet(content.data, S_id, PyString(<<>>))
        tool_input == DictGet(content.data, S_input, PyDict(<<>>))
        caller == DictGet(content.data, S_caller, PyDict(<<>>))
        node0 == Tree(<<Styled(theme.tool_use_label, "Server Tool Use")>>)
        node1 == IF Truthy(tool_id)
                 THEN Add(node0, Tree(<<Styled(theme.tool_id, "ID:"),
                                        Plain(" {}", PyStr(tool_id))>>))
                 ELSE node0
    IN  IF Truthy(caller) /\ ~HasGet(caller)
        THEN Raised(Add(tree, node1), "AttributeError")  \* caller.get
        ELSE
        LET caller_type == DictGet(caller, S_type, PyString(S_unknown))
            node2 == IF Truthy(caller)
                     THEN Add(node1, Tree(<<Styled(theme.metadata_key, "Caller:"),
                                            Plain(" {}", PyStr(caller_type))>>))
                     ELSE node1
        IN  IF ~Truthy(tool_input) THEN Returned(Add(tree, node2))
            ELSE IF ~HasGet(tool_input)
            THEN Raised(Add(tree, node2), "AttributeError")  \* tool_input.get
            ELSE
            LET code == DictGet(tool_input, S_code, PyNone)
                code_node == Tree(<<Styled(theme.input_label, "Code:")>>)
            IN  IF Truthy(code)
                THEN CASE code.ty \in {"int", "bool"} ->  \* len(code)
                            Raised(Add(tree, Add(node2, code_node)), "TypeError")
                       [] code.ty = "str" ->
                            LET shown == code_truncated(code.val)
                            IN  Returned(Add(tree,
                                    Add(node2, Add(code_node,
                                        Syntax(shown, "python", theme.json_theme, TRUE)))))
                ELSE Returned(Add(tree,
                        Add(node2,
                            Add(Tree(<<Styled(theme.input_label, "Input:")>>),
                                Syntax(format_json(tool_input, format_json_max_length),
                                       "json", theme.json_theme, FALSE)))))

\* the loop over a list content: result_node after the items from i on
RECURSIVE render_tool_result_items(_, _, _, _)
render_tool_result_items(items, i, result_node, theme) ==
    IF i > Len(items) THEN Returned(result_node)
    ELSE
    LET item == items[i]
        output_node == Tree(<<Styled(theme.output_label, "Output:")>>)
    IN  IF IsDict(item) /\ PyEq(DictGet(item, S_type, PyNone), PyString(S_text))
        THEN LET text == DictGet(item, S_text, PyString(<<>>))
             IN  IF ~Truthy(text)
                 THEN render_tool_result_items(items, i + 1, result_node, theme)
                 ELSE CASE text.ty \in {"int", "bool"} ->  \* len(text)
                             Raised(Add(result_node, output_node), "TypeError")
                        [] text.ty = "str" ->
                             LET shown == item_text_truncated(text.val)
                             IN  render_tool_result_items(items, i + 1,
                                     Add(result_node,
                                         Add(output_node, Text(shown, theme.text_content))),
                                     theme)
        ELSE render_tool_result_items(items, i + 1,
                 Add(result_node, Add(output_node, Tree(<<Plain("{}", PyStr(item))>>))),
                 theme)

render_tool_result(content, tree, theme) ==
    LET tool_id == DictGet(content.data, S_tool_use_id, PyString(<<>>))
        is_error == DictGet(content.data, S_is_error, PyBool(FALSE))
        result_content == DictGet(content.data, S_content, PyString(<<>>))
        status == tool_result_status(is_error, theme)
        node0 == Tree(<<Styled(theme.tool_result_label, "Tool Result:"), Plain(" ", <<>>),
                        status>>)
        node1 == IF Truthy(tool_id)
                 THEN Add(node0, Tree(<<Styled(theme.tool_id, "Tool Use ID:"),
                                        Plain(" {}", PyStr(tool_id))>>))
                 ELSE node0
    IN  IF ~Truthy(result_content) THEN Returned(Add(tree, node1))
        ELSE IF IsList(result_content)
        THEN LET r == render_tool_result_items(result_content.val, 1, node1, theme)
             IN  [tree |-> Add(tree, r.tree), exc |-> r.exc]
        ELSE LET shown == output_truncated(PyStr(result_content))
             IN  Returned(Add(tree,
                     Add(node1,
                         Add(Tree(<<Styled(theme.output_label, "Output:")>>),
                             Text(shown, theme.text_content)))))

\* code_execution_fallback reading the nested content as a dict all the same
code_execution_fallback_unguarded(content, tree, theme) == Raised(tree, "AttributeError")

\* render_code_execution_result: the fallback to generic rendering
code_execution_fallback(content, tree, theme) ==
    Returned(Add(tree,
        Add(Tree(<<Styled(theme.tool_result_label, "Code Execution Result")>>),
            Syntax(format_json(content.data, format_json_max_length),
                   "json", theme.json_theme, FALSE))))

render_code_execution_result(content, tree, theme) ==
    LET nested_content == DictGet(content.data, S_content, PyDict(<<>>))
    IN  IF IsDict(nested_content)
        THEN
        LET return_code == DictGet(nested_content, S_return_code, PyInt(0))
            stdout == DictGet(nested_content, S_stdout, PyString(<<>>))
            stderr == DictGet(nested_content, S_stderr, PyString(<<>>))
            status == code_execution_status(return_code, theme)
            node0 == Tree(<<Styled(theme.tool_result_label, "Code Execution Result:"),
                            Plain(" ", <<>>), status>>)
            stdout_node == Tree(<<Styled(theme.success, "stdout:")>>)
            stderr_node == Tree(<<Styled(theme.error, "stderr:")>>)
        IN  IF Truthy(stdout) /\ stdout.ty \in {"int", "bool"}  \* len(stdout)
            THEN Raised(Add(tree, Add(node0, stdout_node)), "TypeError")
            ELSE
            LET node1 == IF Truthy(stdout)
                         THEN Add(node0, Add(stdout_node,
                                  Text(stdout_truncated(stdout.val), theme.text_content)))
                         ELSE node0
            IN  IF Truthy(stderr) /\ stderr.ty \in {"int", "bool"}  \* len(stderr)
                THEN Raised(Add(tree, Add(node1, stderr_node)), "TypeError")
                ELSE
                LET node2 == IF Truthy(stderr)
                             THEN Add(node1, Add(stderr_node,
                                      Text(stderr_truncated(stderr.val), theme.text_content)))
                             ELSE node1
                    node3 == IF no_output(stdout, stderr)
                             THEN Add(node2, Tree(<<Styled(theme.metadata_key, "(no output)")>>))
                             ELSE node2
                IN  Returned(Add(tree, node3))
        ELSE code_execution_fallback(content, tree, theme)

\* render_content_block treating an unknown kind as an error
render_content_block_strict(content, tree, theme) ==
    IF PyEq(content.type, PyString(S_text)) THEN render_text_content(content, tree, theme)
    ELSE IF PyEq(content.type, PyString(S_tool_use)) THEN render_tool_use(content, tree, theme)
    ELSE IF PyEq(content.type, PyString(S_tool_result))
    THEN render_tool_result(content, tree, theme)
    ELSE IF PyEq(content.type, PyString(S_server_tool_use))
    THEN render_server_tool_use(content, tree, theme)
    ELSE IF PyEq(content.type, PyString(S_code_execution_tool_result))
    THEN render_code_execution_result(content, tree, theme)
    ELSE Raised(tree, "ValueError")

render_content_block(content, tree, theme) ==
    IF PyEq(content.type, PyString(S_text)) THEN render_text_content(content, tree, theme)
    ELSE IF PyEq(content.type, PyString(S_tool_use)) THEN render_tool_use(content, tree, theme)
    ELSE IF PyEq(content.type, PyString(S_tool_result))
    THEN render_tool_result(content, tree, theme)
    ELSE IF PyEq(content.type, PyString(S_server_tool_use))
    THEN render_server_tool_use(content, tree, theme)
    ELSE IF PyEq(content.type, PyString(S_code_execution_tool_result))
    THEN render_code_execution_result(content, tree, theme)
    ELSE Returned(Add(tree,
             Add(Tree(<<Styled(theme.unknown_type, "Unknown Type:"),
                        Plain(" {}", PyStr(content.type))>>),
                 Syntax(format_json(content.data, format_json_max_length),
                        "json", theme.json_theme, FALSE))))

---------------------------------------------------------------------------
(* parser.py: the parsed forms the visualizer works on. *)
ParsedContent(content_type, data) == [type |-> content_type, data |-> data]

\* ParsedMessage.__init__: usage or {}
ParsedMessage(role, content, model, stop_reason, usage) ==
    [role |-> role, content |-> content, model |-> model, stop_reason |-> stop_reason,
     usage |-> IF Truthy(usage) THEN usage ELSE PyDict(<<>>)]

\* parse_content_block taking a block without a type tag as a text block
parse_content_block_text_default(block) ==
    IF IsDict(block) THEN ParsedContent(DictGet(block, S_type, PyString(S_text)), block)
    ELSE IF block.ty = "str"
    THEN ParsedContent(PyString(S_text), PyDict(<<KV(S_text, block)>>))
    ELSE ParsedContent(PyString(S_unknown), PyDict(<<KV(S_raw, PyString(PyStr(block)))>>))

\* parse_content_block on a JSON value (no SDK objects)
parse_content_block(block) ==
    IF IsDict(block) THEN ParsedContent(DictGet(block, S_type, PyString(S_unknown)), block)
    ELSE IF block.ty = "str"
    THEN ParsedContent(PyString(S_text), PyDict(<<KV(S_text, block)>>))
    ELSE ParsedContent(PyString(S_unknown), PyDict(<<KV(S_raw, PyString(PyStr(block)))>>))

\* iterating `for block in content_blocks`: the items when it is iterable
Iterable(v) == v.ty \in {"list", "str", "dict"}

Items(v) ==
    CASE v.ty = "list" -> v.val
      [] v.ty = "str" -> [i \in 1..Len(v.val) |-> PyString(<<v.val[i]>>)]
      [] v.ty = "dict" -> [i \in 1..Len(v.val) |-> PyString(v.val[i].key)]

\* a message was not built
NotParsed == ParsedMessage(PyString(<<>>), <<>>, PyNone, PyNone, PyNone)

\* parse_response on a JSON value (no SDK objects): the message or the
\* exception raised
parse_response(response) ==
    IF IsDict(response)
    THEN LET role == DictGet(response, S_role, PyString(S_unknown))
             content_blocks == DictGet(response, S_content, PyList(<<>>))
             model == DictGet(response, S_model, PyNone)
             stop_reason == DictGet(response, S_stop_reason, PyNone)
             usage == DictGet(response, S_usage, PyDict(<<>>))
         IN  IF ~Iterable(content_blocks)
             THEN [message |-> NotParsed, exc |-> "TypeError"]  \* for block in ...
             ELSE [message |->
                       ParsedMessage(role,
                                     [i \in 1..Len(Items(content_blocks)) |->
                                         parse_content_block(Items(content_blocks)[i])],
                                     model, stop_reason, usage),
                   exc |-> "none"]
    ELSE [message |-> NotParsed, exc |-> "ValueError"]

---------------------------------------------------------------------------
(* visualizer.py: the usage table and the message assembler. *)
Table(header_style, columns, rows) ==
    [header_style |-> header_style, columns |-> columns, rows |-> rows]

Row(metric, value) == [metric |-> metric, value |-> value]

NoTable == Table("", <<>>, <<>>)

\* create_usage_table with the output count left out of the total
create_usage_table_input_only(usage, theme) ==
    LET input_tokens == DictGet(usage, S_input_tokens, PyInt(0))
        output_tokens == DictGet(usage, S_output_tokens, PyInt(0))
        total_tokens == PyInt(input_tokens.val)
    IN  Table(theme.usage_header,
              <<[name |-> "Metric", style |-> theme.usage_metric, justify |-> "default"],
                [name |-> "Value", style |-> theme.usage_value, justify |-> "right"]>>,
              <<Row("Input Tokens", PyStr(input_tokens)),
                Row("Output Tokens", PyStr(output_tokens)),
                Row("Total Tokens", PyStr(total_tokens))>>)

create_usage_table(usage, theme) ==
    LET input_tokens == DictGet(usage, S_input_tokens, PyInt(0))
        output_tokens == DictGet(usage, S_output_tokens, PyInt(0))
        total_tokens == PyInt(input_tokens.val + output_tokens.val)
    IN  Table(theme.usage_header,
              <<[name |-> "Metric", style |-> theme.usage_metric, justify |-> "default"],
                [name |-> "Value", style |-> theme.usage_value, justify |-> "right"]>>,
              <<Row("Input Tokens", PyStr(input_tokens)),
                Row("Output Tokens", PyStr(output_tokens)),
                Row("Total Tokens", PyStr(total_tokens))>>)

\* Panel(renderable, title=..., border_style=..., expand=False) around a tree
\* or a table, and the blank line console.print() prints
TreePanel(t, title, border_style) ==
    [kind |-> "Panel", title |-> title, border_style |-> border_style,
     tree |-> t, table |-> NoTable]
TablePanel(t, title, border_style) ==
    [kind |-> "Panel", title |-> title, border_style |-> border_style,
     tree |-> Tree(<<>>), table |-> t]
BlankLine ==
    [kind |-> "blank", title |-> "", border_style |-> "", tree |-> Tree(<<>>),
     table |-> NoTable]

\* the label of the wrapper of the 0-based position of the block
block_label_zero_based(i, theme) == <<Span(theme.block_label, "Block {}", IntStr(i - 1))>>

\* visualize_message: the label of the wrapper of block i of enumerate(.., 1)
block_label(i, theme) == <<Span(theme.block_label, "Block {}", IntStr(i))>>

\* the loop over message.content: content_tree after the blocks from i on
RECURSIVE render_blocks(_, _, _, _)
render_blocks(contents, i, content_tree, theme) ==
    IF i > Len(contents) THEN Returned(content_tree)
    ELSE
    LET block_tree == Tree(block_label(i, theme))
        Rest(r) ==
            IF r.exc # "none" THEN Raised(Add(content_tree, r.tree), r.exc)
            ELSE render_blocks(contents, i + 1, Add(content_tree, r.tree), theme)
    IN  Rest(render_content_block(contents[i], block_tree, theme))

\* visualize_message(message, console, theme) with theme resolved: the tree
\* built, what the console printed, and the exception raised
visualize_message(message, theme) ==
    LET tree0 == Tree(<<Styled(theme.title, "Claude Message"), Plain(" (", <<>>),
                        Span(theme.role, "{}", PyStr(message.role)), Plain(")", <<>>)>>)
        tree1 == IF Truthy(message.model)
                 THEN Add(tree0, Tree(<<Styled(theme.metadata_key, "Model:"),
                                        Plain(" {}", PyStr(message.model))>>))
                 ELSE tree0
        tree2 == IF Truthy(message.stop_reason)
                 THEN Add(tree1, Tree(<<Styled(theme.metadata_key, "Stop Reason:"),
                                        Plain(" {}", PyStr(message.stop_reason))>>))
                 ELSE tree1
        content_tree == Tree(<<Styled(theme.content_label, "Content"),
                               Plain(" ({} blocks)", IntStr(Len(message.content)))>>)
        Finish(t, e) ==
            LET panel == TreePanel(t, "Claude API Response", theme.panel_border)
            IN  IF e # "none" THEN [tree |-> t, console |-> <<>>, exc |-> e]
                ELSE IF Truthy(message.usage)
                THEN [tree |-> t,
                      console |-> <<panel, BlankLine,
                                    TablePanel(create_usage_table(message.usage, theme),
                                               "Token Usage", theme.usage_border)>>,
                      exc |-> "none"]
                ELSE [tree |-> t, console |-> <<panel>>, exc |-> "none"]
        Content(r) == Finish(Add(tree2, r.tree), r.exc)
    IN  IF Len(message.content) > 0
        THEN Content(render_blocks(message.content, 1, content_tree, theme))
        ELSE Finish(tree2, "none")

---------------------------------------------------------------------------
(* The inputs the calls are made with. *)
MaxOver == 1
MaxBlocks == 2

\* a string of n characters, abcabc...
MkStr(n) == [i \in 1..n |-> <<"a", "b", "c">>[((i - 1) % 3) + 1]]

\* lengths around a truncation limit
Near(limit) == (limit - 1)..(limit + MaxOver)

\* a field left out of a dict
Absent == [ty |-> "absent", val |-> 0]
DictOf(entries) == PyDict(SelectSeq(entries, LAMBDA e : e.value.ty # "absent"))

\* string lengths that bring the serialization of shape(n) around the limit
JsonLens(empty_len) == {format_json_max_length - empty_len + d : d \in (0 - 1)..MaxOver}

TextBlocks ==
    {DictOf(<<KV(S_type, PyString(S_text)), KV(S_text, t)>>) :
        t \in {Absent, PyNone, PyInt(5)}
              \cup {PyString(MkStr(n)) : n \in {0, 1} \cup Near(1000) \cup {2001}}}

Callers ==
    {Absent, PyDict(<<>>), PyDict(<<KV(S_type, PyString(S_code_execution_20250825))>>),
     PyDict(<<KV(S_type, PyString(S_direct))>>), PyDict(<<KV(S_type, PyString(<<"x">>))>>),
     PyDict(<<KV(S_name, PyString(<<"x">>))>>), PyString(S_direct),
     PyList(<<PyString(S_direct)>>)}

InputWith(n) == PyDict(<<KV(<<"l", "o", "c">>, PyString(MkStr(n)))>>)

ToolUse(n, i, inp, c) ==
    DictOf(<<KV(S_type, PyString(S_tool_use)), KV(S_name, n), KV(S_id, i), KV(S_input, inp),
             KV(S_caller, c)>>)

ToolUseBlocks ==
    {ToolUse(n, i, Absent, c) :
        n \in {Absent, PyString(<<"g", "w">>)},
        i \in {Absent, PyString(<<>>), PyString(<<"t", "1">>)},
        c \in Callers}
    \cup {ToolUse(PyString(<<"g", "w">>), PyString(<<"t", "1">>), inp, c) :
            inp \in {PyDict(<<>>), PyString(<<"S", "F">>)}
                    \cup {InputWith(k) : k \in {2} \cup JsonLens(Len(json_dumps(InputWith(0))))},
            c \in {Absent, PyString(S_direct)}}

CodeWith(n) == PyDict(<<KV(S_code, PyString(MkStr(n)))>>)

ServerToolUse(i, inp, c) ==
    DictOf(<<KV(S_type, PyString(S_server_tool_use)), KV(S_id, i), KV(S_input, inp),
             KV(S_caller, c)>>)

ServerToolUseBlocks ==
    {ServerToolUse(i, inp, c) :
        i \in {Absent, PyString(<<"t", "1">>)},
        inp \in {Absent, CodeWith(1)},
        c \in {Absent, PyDict(<<KV(S_type, PyString(S_direct))>>),
               PyDict(<<KV(S_type, PyString(S_code_execution_20250825))>>),
               PyString(S_direct)}}
    \cup {ServerToolUse(Absent, inp, Absent) :
            inp \in {PyDict(<<>>), PyString(<<"S", "F">>), PyDict(<<KV(S_code, PyInt(5))>>),
                     PyDict(<<KV(S_code, PyNone), KV(S_name, PyString(<<"x">>))>>)}
                    \cup {CodeWith(k) : k \in {0} \cup Near(1000)}
                    \cup {InputWith(k) : k \in {2} \cup JsonLens(Len(json_dumps(InputWith(0))))}}

TextItem(t) == DictOf(<<KV(S_type, PyString(S_text)), KV(S_text, t)>>)
ImageItem == PyDict(<<KV(S_type, PyString(<<"i", "m", "g">>))>>)

ResultContents ==
    {Absent, PyInt(7), ImageItem}
    \cup {PyString(MkStr(n)) : n \in {0, 1} \cup Near(1000)}
    \cup {PyList(<<TextItem(PyString(MkStr(n)))>>) : n \in {0, 1} \cup Near(1000)}
    \cup {PyList(<<>>), PyList(<<TextItem(Absent)>>), PyList(<<ImageItem>>),
          PyList(<<PyString(<<"o", "k">>)>>), PyList(<<TextItem(PyInt(5))>>),
          PyList(<<TextItem(PyString(<<"a">>)), ImageItem>>),
          PyList(<<ImageItem, TextItem(PyString(<<"a">>))>>),
          PyList(<<TextItem(PyString(<<"a">>)), TextItem(PyInt(5)),
                   TextItem(PyString(<<"b">>))>>)}

ToolResult(i, e, c) ==
    DictOf(<<KV(S_type, PyString(S_tool_result)), KV(S_tool_use_id, i), KV(S_is_error, e),
             KV(S_content, c)>>)

ToolResultBlocks ==
    {ToolResult(i, e, c) :
        i \in {Absent, PyString(<<"t", "1">>)},
        e \in {Absent, PyBool(TRUE), PyBool(FALSE), PyNone},
        c \in {Absent, PyString(<<"o", "k">>), PyList(<<TextItem(PyString(<<"a">>)), ImageItem>>),
               PyList(<<TextItem(PyInt(5))>>)}}
    \cup {ToolResult(Absent, e, c) : e \in {Absent, PyBool(TRUE)}, c \in ResultContents}

ShortOut == {Absent, PyString(<<>>), PyString(<<"o">>), PyInt(5)}
LongOut == {PyString(MkStr(n)) : n \in Near(2000)}

Outputs ==
    (ShortOut \X ShortOut)
    \cup (LongOut \X {Absent, PyString(<<"o">>)}) \cup ({Absent, PyString(<<"o">>)} \X LongOut)
    \cup {<<PyString(MkStr(2001)), PyString(MkStr(2001))>>}

CodeExecution(rc, stdout, stderr) ==
    DictOf(<<KV(S_type, PyString(S_code_execution_tool_result)),
             KV(S_content, DictOf(<<KV(S_return_code, rc), KV(S_stdout, stdout),
                                    KV(S_stderr, stderr)>>))>>)

CodeExecutionBlocks ==
    {CodeExecution(rc, oe[1], oe[2]) :
        rc \in {Absent, PyInt(0), PyInt(1), PyInt(0 - 1), PyInt(137), PyNone},
        oe \in ShortOut \X ShortOut}
    \cup {CodeExecution(rc, oe[1], oe[2]) : rc \in {PyInt(0), PyInt(1)}, oe \in Outputs}
    \cup {DictOf(<<KV(S_type, PyString(S_code_execution_tool_result)), KV(S_content, c)>>) :
            c \in {Absent, PyString(<<"o", "k">>), PyList(<<>>), PyNone, PyInt(0),
                   PyList(<<PyString(<<"o", "k">>)>>), PyString(MkStr(500))}}

UnknownWith(kind, n) ==
    DictOf(<<KV(S_type, kind), KV(<<"f", "o", "o">>, PyString(MkStr(n)))>>)

UnknownKinds ==
    {Absent, PyString(S_unknown), PyString(<<"c", "u", "s", "t", "o", "m", "_", "v", "2">>),
     PyString(<<"T", "e", "x", "t">>), PyString(<<>>), PyInt(5)}

UnknownBlocks ==
    {UnknownWith(kind, 3) : kind \in UnknownKinds}
    \cup UNION {{UnknownWith(kind, n) : n \in JsonLens(Len(json_dumps(UnknownWith(kind, 0))))} :
                kind \in {Absent, PyString(<<"c", "u", "s", "t", "o", "m", "_", "v", "2">>)}}

Blocks ==
    TextBlocks \cup ToolUseBlocks \cup ServerToolUseBlocks \cup ToolResultBlocks
    \cup CodeExecutionBlocks \cup UnknownBlocks

\* the blocks the multi-block messages are made of: one that renders
\* nothing, one per kind, and one whose renderer raises
SmallBlocks ==
    {TextItem(PyString(<<>>)), TextItem(PyString(<<"h", "i">>)),
     DictOf(<<KV(S_type, PyString(S_tool_use)), KV(S_caller, PyString(S_direct))>>),
     DictOf(<<KV(S_type, PyString(S_tool_result)), KV(S_is_error, PyBool(TRUE))>>),
     UnknownWith(Absent, 3)}

RECURSIVE SeqsUpTo(_, _)
SeqsUpTo(S, n) ==
    IF n = 0 THEN {<<>>}
    ELSE LET shorter == SeqsUpTo(S, n - 1)
         IN  shorter \cup {Append(s, x) : s \in shorter, x \in S}

Usages ==
    {PyNone, PyDict(<<>>),
     PyDict(<<KV(S_input_tokens, PyInt(5)), KV(S_output_tokens, PyInt(3))>>),
     PyDict(<<KV(S_input_tokens, PyInt(5))>>), PyDict(<<KV(S_output_tokens, PyInt(3))>>),
     PyDict(<<KV(S_input_tokens, PyInt(0)), KV(S_output_tokens, PyInt(0))>>),
     PyDict(<<KV(<<"c", "a", "c", "h", "e">>, PyInt(9))>>)}

MessageOf(blocks, role, model, stop_reason, usage) ==
    ParsedMessage(role, [i \in 1..Len(blocks) |-> parse_content_block(blocks[i])],
                  model, stop_reason, usage)

Messages ==
    {MessageOf(<<b>>, PyString(<<"a", "s", "s", "i", "s", "t", "a", "n", "t">>), PyNone, PyNone,
               PyNone) : b \in Blocks}
    \cup {MessageOf(bs, PyString(<<"u", "s", "e", "r">>), PyNone, PyNone, u) :
            bs \in SeqsUpTo(SmallBlocks, MaxBlocks),
            u \in {PyNone, PyDict(<<KV(S_input_tokens, PyInt(5))>>)}}
    \cup {MessageOf(bs, PyString(S_unknown), m, s, u) :
            bs \in {<<>>, <<TextItem(PyString(<<"h", "i">>))>>},
            m \in {PyNone, PyString(<<"m", "1">>)},
            s \in {PyNone, PyString(<<"e", "n", "d">>)},
            u \in Usages}

ThemeArgs == {"None", "LIGHT_THEME"}
ThemeNames == {"auto", "dark", "light", "jupyter", "custom"}

---------------------------------------------------------------------------
(* cli.py: main() and what it is started with. *)

\* the parsed command line: the positional input ("None" when left out),
\* --json, --theme, and whether -h/--help was given
Args(input, json, theme, help) ==
    [input |-> input, json |-> json, theme |-> theme, help |-> help]

\* the input main reads: the text of stdin or of the file named, whether
\* stdin is a terminal, whether the file named exists
Env(text, isatty, exists) == [text |-> text, isatty |-> isatty, exists |-> exists]

NoArgs == Args("None", FALSE, "auto", FALSE)
NoEnv == Env(<<>>, FALSE, FALSE)

\* the process has not exited
NotExited == 0 - 1

\* --theme choices=["auto", "dark", "light", "jupyter"]
theme_choices == {"auto", "dark", "light", "jupyter"}

\* parser.parse_args(): exits 0 after printing the help, exits 2 on an
\* invalid choice, and returns otherwise
parse_args(argv) ==
    IF argv.help THEN 0
    ELSE IF argv.theme \notin theme_choices THEN 2
    ELSE NotExited

\* json_input.strip() is empty
Whitespace == {" ", "\n", "\t", "\r"}
IsBlank(text) == \A i \in 1..Len(text) : text[i] \in Whitespace

\* the values the JSON texts read are the serializations of
JsonDocuments ==
    LET role == KV(S_role, PyString(<<"a", "s", "s", "i", "s", "t", "a", "n", "t">>))
        hi == PyString(<<"h", "i">>)
        text == DictOf(<<KV(S_type, PyString(S_text)), KV(S_text, hi)>>)
        untyped == PyDict(<<KV(S_text, hi)>>)
        custom == PyDict(<<KV(S_type, PyString(<<"c", "u", "s", "t", "o", "m", "_", "v", "2">>))>>)
        bad_caller == PyDict(<<KV(S_type, PyString(S_tool_use)), KV(S_caller, PyString(S_direct))>>)
        usage == KV(S_usage, PyDict(<<KV(S_input_tokens, PyInt(5)), KV(S_output_tokens, PyInt(3))>>))
    IN  {PyDict(<<>>),
         PyDict(<<role, KV(S_content, PyList(<<text>>)), usage>>),
         PyDict(<<role, KV(S_content, PyList(<<text, untyped, custom>>)),
                  KV(S_model, PyString(<<"m">>)), KV(S_stop_reason, PyString(<<"e">>))>>),
         PyDict(<<KV(S_content, PyList(<<custom, text>>)), KV(S_usage, PyNone)>>),
         PyDict(<<role, KV(S_content, PyList(<<hi, PyInt(5), text>>))>>),
         PyDict(<<role, KV(S_content, PyList(<<bad_caller>>))>>),
         PyDict(<<role, KV(S_content, hi)>>),
         PyDict(<<role, KV(S_content, PyInt(5))>>),
         PyDict(<<role, KV(S_content, PyNone)>>),
         PyList(<<text>>), PyList(<<>>), PyInt(5), hi, PyNone}

MalformedTexts ==
    {<<>>, <<" ", "\n">>, <<"{">>, <<"{", "\"", "r", "o", "l", "e", "\"", ":">>, <<"h", "i">>}

InputTexts == {json_dumps(v) : v \in JsonDocuments} \cup MalformedTexts

\* json.loads(text) / json.load(f): the value whose serialization the text
\* is, JSONDecodeError when it is the serialization of none
json_loads(text) ==
    IF \E v \in JsonDocuments : json_dumps(v) = text
    THEN [value |-> CHOOSE v \in JsonDocuments : json_dumps(v) = text, exc |-> "none"]
    ELSE [value |-> PyNone, exc |-> "JSONDecodeError"]

\* load_from_json_string / load_from_json: json.loads, then parse_response
load_from_json_string(json_string) ==
    LET Parse(r) == IF r.exc # "none" THEN [message |-> NotParsed, exc |-> r.exc]
                    ELSE parse_response(r.value)
    IN  Parse(json_loads(json_string))

\* main_exit with KeyboardInterrupt handled as any other exception
main_exit_no_interrupt(e) ==
    CASE e = "none" -> 0
      [] OTHER -> 1

\* the exit code main ends with when the try block ends with e: "none" when
\* it runs to its end, else what was raised in it
main_exit(e) ==
    CASE e = "none" -> 0
      [] e = "KeyboardInterrupt" -> 130
      [] e = "SystemExit(1)" -> 1
      [] OTHER -> 1

\* console.print(...) of main: the text with its interpolated value
Printed(fmt, arg) == [fmt |-> fmt, arg |-> arg]

CommandLines ==
    {Args(input, FALSE, theme, FALSE) :
        input \in {"None", "-", "response.json"},
        theme \in theme_choices \cup {"neon"}}
    \cup {Args("response.json", TRUE, "auto", FALSE), Args("None", FALSE, "auto", TRUE)}

Environments ==
    {Env(text, isatty, exists) : text \in InputTexts, isatty \in BOOLEAN, exists \in BOOLEAN}

---------------------------------------------------------------------------
(* hooks.py: the visualize class, with save_to=None. *)
MaxCaptures == 2

\* the responses handed to capture(): an empty dict, a message with a text
\* block and usage, a message whose tool_use block has a string caller, and
\* a number
Responses ==
    LET role == KV(S_role, PyString(<<"a", "s", "s", "i", "s", "t", "a", "n", "t">>))
        text == DictOf(<<KV(S_type, PyString(S_text)), KV(S_text, PyString(<<"h", "i">>))>>)
        bad_caller == PyDict(<<KV(S_type, PyString(S_tool_use)), KV(S_caller, PyString(S_direct))>>)
        usage == KV(S_usage, PyDict(<<KV(S_input_tokens, PyInt(5)), KV(S_output_tokens, PyInt(3))>>))
    IN  {PyDict(<<>>),
         PyDict(<<role, KV(S_content, PyList(<<text>>)), usage>>),
         PyDict(<<role, KV(S_content, PyList(<<bad_caller>>))>>),
         PyInt(5)}

\* no visualize object yet
NoHook ==
    /\ hook_pc = "none"
    /\ auto_show = FALSE
    /\ responses = <<>>
    /\ captured = <<>>
    /\ visualized = <<>>

\* one visualize_response call, as it is recorded in visualized
VisualizeCall(response, exc) == [response |-> response, exc |-> exc]

\* the theme, the outputs and the calls made so far
Display(theme, calls, tree, console, exc) ==
    [theme |-> theme, visualized |-> calls, tree |-> tree, console |-> console, exc |-> exc]

\* visualize_response(response), that is visualizer.visualize, after display d
visualize_response(d, response, importable) ==
    LET theme == get_current_theme(d.theme, importable)
        Parsed(p) ==
            LET Shown(r) == Display(theme, Append(d.visualized, VisualizeCall(response, r.exc)),
                                    r.tree, r.console, r.exc)
            IN  IF p.exc # "none"
                THEN Display(d.theme, Append(d.visualized, VisualizeCall(response, p.exc)),
                             Tree(<<>>), <<>>, p.exc)
                ELSE Shown(visualize_message(p.message, ColorSchemeOf(theme)))
    IN  Parsed(parse_response(response))

\* for response in self.responses: visualize_response(response), from the
\* i-th on, until one raises
RECURSIVE visualize_responses(_, _, _, _)
visualize_responses(d, rs, i, importable) ==
    IF i > Len(rs) THEN d
    ELSE LET Next1(d1) == IF d1.exc # "none" THEN d1
                          ELSE visualize_responses(d1, rs, i + 1, importable)
         IN  Next1(visualize_response(d, rs[i], importable))

-----------------------------------------------------------------------------
(* A run: the program sets and reads the current theme and visualizes   *)
(* the message it was given, with or without a theme, any number of      *)
(* times.                                                                 *)
Init ==
    /\ current_theme = "None"
    /\ ipython \in BOOLEAN
    /\ message_in \in Messages
    /\ theme_in = "None"
    /\ pc = "start"
    /\ tree_out = Tree(<<>>)
    /\ console_out = <<>>
    /\ exc_out = "none"
    /\ args = NoArgs /\ env = NoEnv /\ main_pc = "idle" /\ exit_code = NotExited
    /\ main_out = <<>>
    /\ NoHook

\* set_theme(theme)
SetTheme ==
    \E t \in ThemeNames :
        /\ current_theme' = get_theme(t, ipython)
        /\ UNCHANGED <<ipython, message_in, theme_in, pc, tree_out, console_out, exc_out>>
        /\ UNCHANGED main_vars /\ UNCHANGED hook_vars

\* get_current_theme()
GetCurrentTheme ==
    /\ current_theme' = get_current_theme(current_theme, ipython)
    /\ UNCHANGED <<ipython, message_in, theme_in, pc, tree_out, console_out, exc_out>>
    /\ UNCHANGED main_vars /\ UNCHANGED hook_vars

\* visualize_message(message_in, theme=theme) on a fresh console, theme
\* being None or a scheme
VisualizeMessage ==
    \E theme_arg \in ThemeArgs :
        /\ theme_in' = theme_arg
        /\ LET theme == IF theme_arg = "None"
                        THEN get_current_theme(current_theme, ipython)
                        ELSE theme_arg
               Call(r) ==
                   /\ tree_out' = r.tree
                   /\ console_out' = r.console
                   /\ exc_out' = r.exc
                   /\ pc' = IF r.exc = "none" THEN "returned" ELSE "raised"
           IN  /\ current_theme' = (IF theme_arg = "None" THEN theme ELSE current_theme)
               /\ Call(visualize_message(message_in, ColorSchemeOf(theme)))
        /\ UNCHANGED <<ipython, message_in>>
    /\ UNCHANGED main_vars /\ UNCHANGED hook_vars

Next == SetTheme \/ GetCurrentTheme \/ VisualizeMessage

Spec == Init /\ [][Next]_vars

---------------------------------------------------------------------------
(* A run of the command-line program, main(). *)
InitMain ==
    /\ current_theme = "None"
    /\ ipython \in BOOLEAN
    /\ message_in = NotParsed
    /\ theme_in = "None"
    /\ pc = "start"
    /\ tree_out = Tree(<<>>)
    /\ console_out = <<>>
    /\ exc_out = "none"
    /\ args \in CommandLines
    /\ env \in Environments
    /\ main_pc = "parse_args"
    /\ exit_code = NotExited
    /\ main_out = <<>>
    /\ NoHook

\* sys.exit(code), or main returning (code 0)
Exit(code) == exit_code' = code /\ main_pc' = "exited"

\* args = parser.parse_args(); set_theme(theme_map[args.theme])
MainParseArgs ==
    /\ main_pc = "parse_args"
    /\ IF parse_args(args) # NotExited
       THEN Exit(parse_args(args)) /\ UNCHANGED current_theme
       ELSE /\ current_theme' = get_theme(args.theme, ipython)
            /\ main_pc' = "read"
            /\ UNCHANGED exit_code
    /\ UNCHANGED <<ipython, message_in, theme_in, pc, tree_out, console_out, exc_out,
                   args, env, main_out>>
    /\ UNCHANGED hook_vars

\* the try block up to the text to load: stdin read and found non-empty,
\* or the file found to exist
MainRead ==
    /\ main_pc = "read"
    /\ IF args.input \in {"None", "-"}
       THEN LET prompt == IF env.isatty
                          THEN <<Printed("No input file specified. Reading from stdin...", ""),
                                 Printed("Paste JSON and press Ctrl+D (Unix) or Ctrl+Z (Windows) when done.\n", "")>>
                          ELSE <<>>
            IN  IF IsBlank(env.text)
                THEN /\ main_out' = main_out \o prompt
                                     \o <<Printed("Error: No input provided", "")>>
                     /\ Exit(main_exit("SystemExit(1)"))
                ELSE /\ main_out' = main_out \o prompt
                     /\ main_pc' = "load"
                     /\ UNCHANGED exit_code
       ELSE IF ~env.exists
            THEN /\ main_out' = Append(main_out, Printed("Error: File not found: {}", args.input))
                 /\ Exit(main_exit("SystemExit(1)"))
            ELSE /\ main_pc' = "load"
                 /\ UNCHANGED <<exit_code, main_out>>
    /\ UNCHANGED <<current_theme, ipython, message_in, theme_in, pc, tree_out, console_out,
                   exc_out, args, env>>
    /\ UNCHANGED hook_vars

\* message = load_from_json_string(json_input) / load_from_json(str(input_path))
MainLoad ==
    /\ main_pc = "load"
    /\ LET Loaded(r) ==
               IF r.exc # "none"
               THEN /\ main_out' = main_out \o <<Printed("Error: {}", r.exc),
                                                  Printed("{}", "traceback")>>
                    /\ Exit(main_exit(r.exc))
                    /\ UNCHANGED message_in
               ELSE /\ message_in' = r.message
                    /\ main_pc' = "visualize"
                    /\ UNCHANGED <<exit_code, main_out>>
       IN  Loaded(load_from_json_string(env.text))
    /\ UNCHANGED <<current_theme, ipython, theme_in, pc, tree_out, console_out, exc_out,
                   args, env>>
    /\ UNCHANGED hook_vars

\* visualize_message(message, console), and main's end
MainVisualize ==
    /\ main_pc = "visualize"
    /\ LET Shown(r) ==
               /\ tree_out' = r.tree
               /\ console_out' = r.console
               /\ exc_out' = r.exc
               /\ pc' = (IF r.exc = "none" THEN "returned" ELSE "raised")
               /\ main_out' = (IF r.exc = "none" THEN main_out
                               ELSE main_out \o <<Printed("Error: {}", r.exc),
                                                  Printed("{}", "traceback")>>)
               /\ Exit(main_exit(r.exc))
       IN  /\ current_theme' = get_current_theme(current_theme, ipython)
           /\ Shown(visualize_message(message_in,
                                      ColorSchemeOf(get_current_theme(current_theme, ipython))))
    /\ UNCHANGED <<ipython, message_in, theme_in, args, env>>
    /\ UNCHANGED hook_vars

\* KeyboardInterrupt raised in the try block
MainInterrupt ==
    /\ main_pc \in {"read", "load", "visualize"}
    /\ main_out' = Append(main_out, Printed("\nInterrupted by user", ""))
    /\ Exit(main_exit("KeyboardInterrupt"))
    /\ UNCHANGED <<current_theme, ipython, message_in, theme_in, pc, tree_out, console_out,
                   exc_out, args, env>>
    /\ UNCHANGED hook_vars

NextMain == MainParseArgs \/ MainRead \/ MainLoad \/ MainVisualize \/ MainInterrupt

SpecMain == InitMain /\ [][NextMain]_vars

-----------------------------------------------------------------------------
(* A run with one visualize object: made directly or by capture_responses, *)
(* used as a context manager, with capture() calls in the with-block.      *)
InitHooks ==
    /\ current_theme = "None"
    /\ ipython \in BOOLEAN
    /\ message_in = NotParsed
    /\ theme_in = "None"
    /\ pc = "start"
    /\ tree_out = Tree(<<>>)
    /\ console_out = <<>>
    /\ exc_out = "none"
    /\ args = NoArgs /\ env = NoEnv /\ main_pc = "idle" /\ exit_code = NotExited
    /\ main_out = <<>>
    /\ NoHook

\* the display the hook finds
Displayed == Display(current_theme, visualized, tree_out, console_out, "none")

\* the display the hook leaves
Displays(d) ==
    /\ current_theme' = d.theme
    /\ visualized' = d.visualized
    /\ tree_out' = d.tree
    /\ console_out' = d.console
    /\ exc_out' = d.exc
    /\ pc' = IF d.exc = "none" THEN "returned" ELSE "raised"

\* visualize(auto_show=...)
HookInit ==
    /\ hook_pc = "none"
    /\ \E a \in BOOLEAN : auto_show' = a
    /\ responses' = <<>>
    /\ hook_pc' = "constructed"
    /\ UNCHANGED <<current_theme, ipython, message_in, theme_in, pc, tree_out, console_out,
                   exc_out, captured, visualized>>
    /\ UNCHANGED main_vars

\* with capture_responses() as viz: up to the yield
HookCaptureResponses ==
    /\ hook_pc = "none"
    /\ auto_show' = FALSE
    /\ responses' = <<>>
    /\ hook_pc' = "yielded"
    /\ UNCHANGED <<current_theme, ipython, message_in, theme_in, pc, tree_out, console_out,
                   exc_out, captured, visualized>>
    /\ UNCHANGED main_vars

\* __enter__
HookEnter ==
    /\ hook_pc = "constructed"
    /\ hook_pc' = "entered"
    /\ UNCHANGED <<current_theme, ipython, message_in, theme_in, pc, tree_out, console_out,
                   exc_out, auto_show, responses, captured, visualized>>
    /\ UNCHANGED main_vars

\* capture(response) in the with-block
HookCapture ==
    /\ hook_pc \in {"entered", "yielded"}
    /\ Len(responses) < MaxCaptures
    /\ \E response \in Responses :
           /\ responses' = Append(responses, response)
           /\ captured' = Append(captured, response)
           /\ IF auto_show
              THEN Displays(visualize_response(Displayed, response, ipython))
              ELSE UNCHANGED <<current_theme, visualized, tree_out, console_out, exc_out, pc>>
    /\ UNCHANGED <<ipython, message_in, theme_in, hook_pc, auto_show>>
    /\ UNCHANGED main_vars

\* __exit__, at the end of the with-block or on an exception leaving it
HookExit ==
    /\ hook_pc = "entered"
    /\ hook_pc' = "exited"
    /\ IF Len(responses) > 0 /\ auto_show
       THEN Displays(visualize_responses(Displayed, responses, 1, ipython))
       ELSE UNCHANGED <<current_theme, visualized, tree_out, console_out, exc_out, pc>>
    /\ UNCHANGED <<ipython, message_in, theme_in, auto_show, responses, captured>>
    /\ UNCHANGED main_vars

\* the end of the with-block of capture_responses(): the generator finishes
HookResume ==
    /\ hook_pc = "yielded"
    /\ hook_pc' = "exited"
    /\ UNCHANGED <<current_theme, ipython, message_in, theme_in, pc, tree_out, console_out,
                   exc_out, auto_show, responses, captured, visualized>>
    /\ UNCHANGED main_vars

NextHooks ==
    HookInit \/ HookCaptureResponses \/ HookEnter \/ HookCapture \/ HookExit \/ HookResume

SpecHooks == InitHooks /\ [][NextHooks]_vars
---------------------------------------------------------------------------
(* Reading a run's state: the content section of the tree, the wrapper of *)
(* each block, and the nodes under it.                                     *)

\* the fixed texts of a label, in order
Fmts(label) == [i \in 1..Len(label) |-> label[i].fmt]

\* the children of node whose label starts with the text fmt
ChildrenWith(node, fmt) ==
    SelectSeq(node.children, LAMBDA c : Len(c.label) > 0 /\ c.label[1].fmt = fmt)

ContentSections == ChildrenWith(tree_out, "Content")

\* the "Block N" wrappers built, in order
Wrappers == IF Len(ContentSections) = 0 THEN <<>> ELSE ContentSections[1].children

NumBlocks == Len(message_in.content)

\* block i's renderer was called, and it returned
Reached(i) == pc # "start" /\ i \in 1..Len(Wrappers)
Rendered(i) == Reached(i) /\ ~(pc = "raised" /\ i = Len(Wrappers))

KindIs(i, kind) == message_in.content[i].type = PyString(kind)

\* field key of block i, Absent when the block does not hold it
Field(i, key) == DictGet(message_in.content[i].data, key, Absent)

IsStr(v) == v.ty = "str"

\* the truncation policy of the specification: text if len(text) <= limit
\* else text[:limit] + marker
TruncationPolicy(text, limit, marker) ==
    IF Len(text) <= limit THEN text ELSE SubSeq(text, 1, limit) \o marker

TruncationMarker ==
    <<"\n", ".", ".", ".", " ", "(", "t", "r", "u", "n", "c", "a", "t", "e", "d", ")">>

---------------------------------------------------------------------------
(* C1: a text block whose text is a string is shown unchanged when it has *)
(* at most 1000 characters (an empty text adds no node at all), and as    *)
(* its first 1000 characters followed by the truncation marker when it    *)
(* has more.                                                               *)
C1_TextTruncation ==
    \A i \in 1..NumBlocks :
        (Reached(i) /\ KindIs(i, S_text) /\ Field(i, S_text).ty \in {"str", "absent"}) =>
            LET text == IF Field(i, S_text).ty = "absent" THEN <<>> ELSE Field(i, S_text).val
                under == Wrappers[i].children
            IN  /\ Rendered(i)
                /\ IF Len(text) = 0 THEN under = <<>>
                   ELSE /\ Len(under) = 1
                        /\ Fmts(under[1].label) = <<"Text">>
                        /\ Len(under[1].children) = 1
                        /\ under[1].children[1].kind = "Text"
                        /\ Len(text) <= 1000 => under[1].children[1].text = text
                        /\ Len(text) > 1000 =>
                             /\ under[1].children[1].text
                                  = SubSeq(text, 1, 1000) \o TruncationMarker
                             /\ Len(under[1].children[1].text) = 1000 + Len(TruncationMarker)

\* a text of 1001 characters was rendered as 1000 characters and the marker
C1_Witness ==
    /\ pc = "returned" /\ NumBlocks = 1 /\ KindIs(1, S_text)
    /\ Field(1, S_text).ty = "str" /\ Len(Field(1, S_text).val) = 1001
    /\ Len(Wrappers[1].children[1].children[1].text) = 1016

---------------------------------------------------------------------------
(* C2: a block whose kind is none of the five known kinds is rendered     *)
(* without an exception as one node labelled "Unknown Type: <kind>" that  *)
(* shows the kind literally and holds one child, the JSON serialization   *)
(* of the block's payload (its first 500 characters when it is longer).    *)
KnownKinds ==
    {PyString(S_text), PyString(S_tool_use), PyString(S_tool_result),
     PyString(S_server_tool_use), PyString(S_code_execution_tool_result)}

C2_UnknownKindFallback ==
    \A i \in 1..NumBlocks :
        (Reached(i) /\ message_in.content[i].type \notin KnownKinds) =>
            LET kind == message_in.content[i].type
                under == Wrappers[i].children
                serialized == json_dumps(message_in.content[i].data)
                shown == IF Len(serialized) < 500 THEN Len(serialized) ELSE 500
            IN  /\ Rendered(i)
                /\ Len(under) = 1
                /\ Fmts(under[1].label) = <<"Unknown Type:", " {}">>
                /\ under[1].label[2].arg = (IF IsStr(kind) THEN kind.val ELSE PyStr(kind))
                /\ Len(under[1].children) = 1
                /\ under[1].children[1].kind = "Syntax"
                /\ under[1].children[1].lexer = "json"
                /\ SubSeq(under[1].children[1].text, 1, shown) = SubSeq(serialized, 1, shown)
                /\ Len(serialized) <= 500 => under[1].children[1].text = serialized

\* a block of kind custom_v2 was rendered under its "Unknown Type:" label
C2_Witness ==
    /\ pc = "returned" /\ NumBlocks = 1
    /\ KindIs(1, <<"c", "u", "s", "t", "o", "m", "_", "v", "2">>)
    /\ Len(Wrappers[1].children) = 1
    /\ Wrappers[1].children[1].label[2].arg = <<"c", "u", "s", "t", "o", "m", "_", "v", "2">>
    /\ Len(Wrappers[1].children[1].children) = 1

---------------------------------------------------------------------------
(* C3: when visualize_message returns, it has printed the Token Usage     *)
(* panel if and only if the message's usage mapping is non-empty, and the *)
(* panel's rows read the input count, the output count and their sum, an  *)
(* absent count taken as 0.  (A call that raises prints nothing.)          *)
UsagePanels == SelectSeq(console_out, LAMBDA p : p.title = "Token Usage")

C3_UsagePanel ==
    pc = "returned" =>
        LET usage == message_in.usage
            input == IF HasKey(usage, S_input_tokens)
                     THEN DictGet(usage, S_input_tokens, Absent).val ELSE 0
            output == IF HasKey(usage, S_output_tokens)
                      THEN DictGet(usage, S_output_tokens, Absent).val ELSE 0
        IN  /\ Len(UsagePanels) = (IF Len(usage.val) > 0 THEN 1 ELSE 0)
            /\ Len(UsagePanels) = 1 =>
                 LET rows == UsagePanels[1].table.rows
                 IN  /\ [r \in 1..Len(rows) |-> rows[r].metric]
                          = <<"Input Tokens", "Output Tokens", "Total Tokens">>
                     /\ rows[1].value = IntStr(input)
                     /\ rows[2].value = IntStr(output)
                     /\ rows[3].value = IntStr(input + output)

\* a usage of 5 input and 3 output tokens was printed with a total of 8
C3_Witness ==
    /\ pc = "returned"
    /\ HasKey(message_in.usage, S_input_tokens) /\ HasKey(message_in.usage, S_output_tokens)
    /\ Len(UsagePanels) = 1
    /\ UsagePanels[1].table.rows[3].value = <<"8">>

---------------------------------------------------------------------------
(* C4: the status of a tool_result block reads "Error" exactly when       *)
(* is_error is true and "Success" otherwise, also when is_error is absent *)
(* (or null), whatever content and tool_use_id are.                        *)
C4_ToolResultStatus ==
    \A i \in 1..NumBlocks :
        (Reached(i) /\ KindIs(i, S_tool_result)
         /\ Field(i, S_is_error).ty \in {"absent", "bool", "none"}) =>
            /\ Len(Wrappers[i].children) = 1
            /\ Fmts(Wrappers[i].children[1].label)
                 = <<"Tool Result:", " ",
                     IF Field(i, S_is_error) = PyBool(TRUE) THEN "Error" ELSE "Success">>

\* a tool_result with is_error true and a list content was rendered as Error
C4_Witness ==
    /\ pc = "returned" /\ NumBlocks = 1 /\ KindIs(1, S_tool_result)
    /\ Field(1, S_is_error) = PyBool(TRUE)
    /\ Field(1, S_content).ty = "list"
    /\ Wrappers[1].children[1].label[3].fmt = "Error"
    /\ Len(Wrappers[1].children[1].children) = 2

---------------------------------------------------------------------------
\* the nested content of a code_execution_tool_result block ({} when absent)
Nested(i) == DictGet(message_in.content[i].data, S_content, PyDict(<<>>))

\* field key of the nested content of block i, Absent when it is not there
NestedField(i, key) == DictGet(Nested(i), key, Absent)

(* C5: for a code_execution_tool_result block whose nested content is a   *)
(* key-value object, the status reads "Success (exit rc)" when return_code *)
(* is 0 or absent (then rc is 0) and "Error (exit rc)" for every other    *)
(* return_code, rc being the decimal text of the code (None for null).     *)
C5_CodeExecutionStatus ==
    \A i \in 1..NumBlocks :
        (Reached(i) /\ KindIs(i, S_code_execution_tool_result) /\ IsDict(Nested(i))
         /\ NestedField(i, S_return_code).ty \in {"absent", "int", "none"}) =>
            LET return_code == NestedField(i, S_return_code)
                rc == CASE return_code.ty = "absent" -> <<"0">>
                        [] return_code.ty = "int" -> IntStr(return_code.val)
                        [] return_code.ty = "none" -> <<"N", "o", "n", "e">>
                zero == return_code.ty = "absent"
                        \/ (return_code.ty = "int" /\ return_code.val = 0)
            IN  /\ Len(Wrappers[i].children) = 1
                /\ Fmts(Wrappers[i].children[1].label)
                     = <<"Code Execution Result:", " ",
                         IF zero THEN "Success (exit {})" ELSE "Error (exit {})">>
                /\ Wrappers[i].children[1].label[3].arg = rc

\* a result with return_code 137 was rendered as "Error (exit 137)"
C5_Witness ==
    /\ pc = "returned" /\ NumBlocks = 1 /\ KindIs(1, S_code_execution_tool_result)
    /\ IsDict(Nested(1))
    /\ NestedField(1, S_return_code) = PyInt(137)
    /\ Wrappers[1].children[1].label[3].fmt = "Error (exit {})"
    /\ Wrappers[1].children[1].label[3].arg = <<"1", "3", "7">>

---------------------------------------------------------------------------
(* C6: for a code_execution_tool_result block whose nested content is a   *)
(* key-value object with stdout and stderr each a string or absent, the   *)
(* result node holds a stdout node iff stdout is non-empty, a stderr node *)
(* iff stderr is non-empty, each whatever the other is, and the           *)
(* "(no output)" placeholder iff it holds neither; it holds nothing else.  *)
C6_OutputNodes ==
    \A i \in 1..NumBlocks :
        (Reached(i) /\ KindIs(i, S_code_execution_tool_result) /\ IsDict(Nested(i))
         /\ NestedField(i, S_stdout).ty \in {"absent", "str"}
         /\ NestedField(i, S_stderr).ty \in {"absent", "str"}) =>
            LET stdout == NestedField(i, S_stdout)
                stderr == NestedField(i, S_stderr)
                has_stdout == stdout.ty = "str" /\ Len(stdout.val) > 0
                has_stderr == stderr.ty = "str" /\ Len(stderr.val) > 0
                F(node) ==
                    /\ Len(ChildrenWith(node, "stdout:")) = (IF has_stdout THEN 1 ELSE 0)
                    /\ Len(ChildrenWith(node, "stderr:")) = (IF has_stderr THEN 1 ELSE 0)
                    /\ Len(ChildrenWith(node, "(no output)"))
                         = (IF Len(ChildrenWith(node, "stdout:")) = 0
                               /\ Len(ChildrenWith(node, "stderr:")) = 0 THEN 1 ELSE 0)
                    /\ Len(node.children)
                         = Len(ChildrenWith(node, "stdout:")) + Len(ChildrenWith(node, "stderr:"))
                           + Len(ChildrenWith(node, "(no output)"))
                    /\ has_stdout =>
                         SubSeq(ChildrenWith(node, "stdout:")[1].children[1].text, 1, 1)
                           = SubSeq(stdout.val, 1, 1)
                    /\ has_stderr =>
                         SubSeq(ChildrenWith(node, "stderr:")[1].children[1].text, 1, 1)
                           = SubSeq(stderr.val, 1, 1)
            IN  Rendered(i) /\ Len(Wrappers[i].children) = 1 /\ F(Wrappers[i].children[1])

\* a result with a stderr and no stdout was rendered with the stderr node alone
C6_Witness ==
    /\ pc = "returned" /\ NumBlocks = 1 /\ KindIs(1, S_code_execution_tool_result)
    /\ IsDict(Nested(1))
    /\ NestedField(1, S_stdout).ty = "absent"
    /\ NestedField(1, S_stderr) = PyString(<<"o">>)
    /\ Len(ChildrenWith(Wrappers[1].children[1], "stderr:")) = 1
    /\ Len(Wrappers[1].children[1].children) = 1

---------------------------------------------------------------------------
ColorSchemes == {DARK_THEME, LIGHT_THEME, JUPYTER_THEME}

\* wrapper j is "Block j" and holds what the renderer of block j built
IsWrapperOf(wrapper, j) ==
    /\ Fmts(wrapper.label) = <<"Block {}">>
    /\ wrapper.label[1].arg = NatStr(j)
    /\ \E theme \in ColorSchemes :
          wrapper = render_content_block(message_in.content[j],
                                         Tree(<<Span(theme.block_label, "Block {}", NatStr(j))>>),
                                         theme).tree

\* the statement of C7 as the specification has it, on the calls that return
C7_SectionForEveryMessage ==
    pc = "returned" =>
        /\ Len(ContentSections) = 1
        /\ ContentSections[1].label[2].arg = NatStr(NumBlocks)
        /\ Len(Wrappers) = NumBlocks
        /\ \A j \in 1..NumBlocks : IsWrapperOf(Wrappers[j], j)

(* C7: for a message with at least one content block, visualize_message   *)
(* builds one content section whose header shows the number of content    *)
(* blocks and which holds a "Block N" wrapper for each block whose        *)
(* renderer it calls, in the order of message.content, N the 1-based      *)
(* position, whatever the kind and whether or not the renderer puts a     *)
(* node under the wrapper: all blocks when it returns, the blocks up to   *)
(* the one whose renderer raised otherwise.  For a message without        *)
(* content blocks it builds no content section.                            *)
C7_ContentSection ==
    pc # "start" =>
        /\ Len(ChildrenWith(tree_out, "Content")) = (IF NumBlocks > 0 THEN 1 ELSE 0)
        /\ NumBlocks > 0 =>
             /\ Fmts(ContentSections[1].label) = <<"Content", " ({} blocks)">>
             /\ ContentSections[1].label[2].arg = NatStr(NumBlocks)
             /\ Len(Wrappers) \in 1..NumBlocks
             /\ \A j \in 1..Len(Wrappers) : IsWrapperOf(Wrappers[j], j)
             /\ pc = "returned" => Len(Wrappers) = NumBlocks
             /\ pc = "raised" =>
                  render_content_block(message_in.content[Len(Wrappers)], Tree(<<>>),
                                       DARK_THEME).exc = exc_out

\* a message of two blocks was rendered with two wrappers, the first empty
C7_Witness ==
    /\ pc = "returned" /\ NumBlocks = 2
    /\ ContentSections[1].label[2].arg = <<"2">>
    /\ Len(Wrappers) = 2
    /\ Wrappers[1].children = <<>>
    /\ Wrappers[2].label[1].arg = <<"2">>
    /\ Len(Wrappers[2].children) = 1

---------------------------------------------------------------------------
(* C8: render_content_block never raises, whatever the kind and whatever  *)
(* the payload: a field that is missing or has another shape than the     *)
(* common one (a caller or input that is not a key-value object, a text   *)
(* that is not a string) still lets every block's rendering complete.      *)
C8_RenderNeverRaises ==
    /\ exc_out = "none"
    /\ \A i \in 1..NumBlocks : Reached(i) => Rendered(i)

\* a tool_use block whose caller is the string "direct" raised at caller.get
C8_Witness ==
    /\ pc = "raised" /\ exc_out = "AttributeError"
    /\ NumBlocks = 1 /\ KindIs(1, S_tool_use)
    /\ Field(1, S_caller) = PyString(S_direct)
    /\ ~Rendered(1)
    /\ console_out = <<>>

---------------------------------------------------------------------------
(* The places of the tree built where a truncated string is shown: the    *)
(* renderer's place, the string it was given and the string in the tree.   *)
Site(place, input, shown) == [place |-> place, input |-> input, shown |-> shown]

\* the string shown under the child of node labelled fmt
ShownUnder(node, fmt) == ChildrenWith(node, fmt)[1].children[1].text

IsTextItem(item) == IsDict(item) /\ DictGet(item, S_type, PyNone) = PyString(S_text)

ItemSites(items, node) ==
    LET emitted == SelectSeq(items, LAMBDA item :
                       ~IsTextItem(item) \/ Truthy(DictGet(item, S_text, PyString(<<>>))))
        outputs == ChildrenWith(node, "Output:")
    IN  {Site("item", DictGet(emitted[k], S_text, PyString(<<>>)).val,
              outputs[k].children[1].text) :
            k \in {n \in 1..Len(emitted) : IsTextItem(emitted[n])}}

SitesOf(i) ==
    LET data == message_in.content[i].data
        node == Wrappers[i].children[1]
        text == DictGet(data, S_text, PyString(<<>>))
        tool_input == DictGet(data, S_input, PyDict(<<>>))
        code == IF IsDict(tool_input) THEN DictGet(tool_input, S_code, PyNone) ELSE PyNone
        result_content == DictGet(data, S_content, PyString(<<>>))
        stdout == NestedField(i, S_stdout)
        stderr == NestedField(i, S_stderr)
    IN  CASE KindIs(i, S_text) ->
                IF Truthy(text) THEN {Site("text", text.val, ShownUnder(Wrappers[i], "Text"))}
                ELSE {}
          [] KindIs(i, S_tool_use) ->
                IF Truthy(tool_input)
                THEN {Site("json", json_dumps(tool_input), ShownUnder(node, "Input:"))}
                ELSE {}
          [] KindIs(i, S_server_tool_use) ->
                IF ~Truthy(tool_input) THEN {}
                ELSE IF Truthy(code) THEN {Site("code", code.val, ShownUnder(node, "Code:"))}
                ELSE {Site("json", json_dumps(tool_input), ShownUnder(node, "Input:"))}
          [] KindIs(i, S_tool_result) ->
                IF ~Truthy(result_content) THEN {}
                ELSE IF IsList(result_content) THEN ItemSites(result_content.val, node)
                ELSE IF IsStr(result_content)
                THEN {Site("output", result_content.val, ShownUnder(node, "Output:"))}
                ELSE {}
          [] KindIs(i, S_code_execution_tool_result) ->
                IF IsDict(Nested(i))
                THEN (IF stdout.ty = "str" /\ Len(stdout.val) > 0
                      THEN {Site("stdout", stdout.val, ShownUnder(node, "stdout:"))} ELSE {})
                     \cup (IF stderr.ty = "str" /\ Len(stderr.val) > 0
                           THEN {Site("stderr", stderr.val, ShownUnder(node, "stderr:"))} ELSE {})
                ELSE {Site("json", json_dumps(data), node.children[1].text)}
          [] OTHER -> {Site("json", json_dumps(data), node.children[1].text)}

Sites == UNION {SitesOf(i) : i \in {n \in 1..NumBlocks : Rendered(n)}}

\* the limits of the specification: 500 for serialized structured data,
\* 1000 for text, tool-result output and server-tool code, 2000 for stdout
\* and stderr
LimitOf(place) ==
    CASE place = "json" -> 500
      [] place \in {"text", "item", "output", "code"} -> 1000
      [] place \in {"stdout", "stderr"} -> 2000

JsonTruncationMarker ==
    <<"\n", " ", " ", ".", ".", ".", " ", "(", "t", "r", "u", "n", "c", "a", "t", "e", "d", ")">>

\* the statement of C9 as the specification has it: one marker everywhere
C9_OneMarkerEverywhere ==
    \A s \in Sites : s.shown = TruncationPolicy(s.input, LimitOf(s.place), TruncationMarker)

(* C9: every renderer applies the same truncation rule, text when         *)
(* len(text) <= limit and text[:limit] + marker otherwise, the marker not *)
(* counted toward the limit; the limit is 500 for serialized structured   *)
(* data, 1000 for text, tool-result output and server-tool code, 2000 for *)
(* stdout and stderr; the marker is "\n... (truncated)" everywhere but in *)
(* format_json, whose marker is "\n  ... (truncated)".                     *)
C9_TruncationRule ==
    \A s \in Sites :
        s.shown = TruncationPolicy(s.input, LimitOf(s.place),
                                   IF s.place = "json" THEN JsonTruncationMarker
                                   ELSE TruncationMarker)

\* an input of a tool_use block whose serialization has 501 characters was
\* shown as its first 500 characters and the marker of format_json
C9_Witness ==
    /\ pc = "returned" /\ NumBlocks = 1 /\ KindIs(1, S_tool_use)
    /\ \E s \in Sites :
          /\ s.place = "json" /\ Len(s.input) = 501
          /\ s.shown = SubSeq(s.input, 1, 500) \o JsonTruncationMarker
          /\ Len(s.shown) = 518

---------------------------------------------------------------------------
\* the truncation of the renderer's place applied to text
Again(place, text) ==
    CASE place = "json" -> json_truncated(text, format_json_max_length)
      [] place = "text" -> text_truncated(text)
      [] place = "code" -> code_truncated(text)
      [] place = "item" -> item_text_truncated(text)
      [] place = "output" -> output_truncated(text)
      [] place = "stdout" -> stdout_truncated(text)
      [] place = "stderr" -> stderr_truncated(text)

(* C10: truncation is idempotent on its output: applying the truncation   *)
(* of a renderer, with the same limit, to a string that it produced       *)
(* yields that same string, whether or not the string was cut.             *)
C10_TruncationIdempotent ==
    \A s \in Sites :
        /\ Again(s.place, s.shown) = s.shown
        /\ Again(s.place, Again(s.place, s.input)) = Again(s.place, s.input)

\* a stdout and a stderr of 2001 characters each were shown cut, and
\* truncating the 2016 characters shown again leaves them as they are
C10_Witness ==
    /\ pc = "returned" /\ NumBlocks = 1 /\ KindIs(1, S_code_execution_tool_result)
    /\ \E s \in Sites :
          /\ s.place = "stdout" /\ Len(s.input) = 2001 /\ Len(s.shown) = 2016
          /\ stdout_truncated(s.shown) = s.shown
    /\ \E s \in Sites :
          /\ s.place = "stderr" /\ Len(s.input) = 2001 /\ Len(s.shown) = 2016
          /\ stderr_truncated(s.shown) = s.shown

---------------------------------------------------------------------------
\* readings of a run of main
ValidCommandLine == args.theme \in {"auto", "dark", "light", "jupyter"}
FromStdin == args.input \in {"None", "-"}
Interrupted ==
    Len(main_out) > 0 /\ main_out[Len(main_out)].fmt = "\nInterrupted by user"

\* empty stdin, or a file that is not found
InputError == (FromStdin /\ IsBlank(env.text)) \/ (~FromStdin /\ ~env.exists)

\* malformed JSON, or a JSON value of an unsupported shape: not an object,
\* or an object whose content cannot be iterated
ParseError ==
    ~\E v \in JsonDocuments :
        /\ json_dumps(v) = env.text
        /\ v.ty = "dict"
        /\ HasKey(v, S_content) => DictGet(v, S_content, PyNone).ty \in {"list", "str", "dict"}

\* the statement of C11 as the specification has it: 0, 1 and 130 only
C11_OnlyThreeExitCodes == main_pc = "exited" => exit_code \in {0, 1, 130}

(* C11: main ends with exit code 0 when the input is read, parsed and     *)
(* visualized (or the help was asked for), 1 on an input or parse error   *)
(* (empty stdin, file not found, malformed JSON, unsupported shape) and   *)
(* when rendering raises, 130 when interrupted in the try block, and 2    *)
(* when the argument parser rejects the command line; no other code.       *)
C11_ExitCodes ==
    main_pc = "exited" =>
        /\ exit_code = (CASE args.help -> 0
                          [] ~args.help /\ ~ValidCommandLine -> 2
                          [] ~args.help /\ ValidCommandLine /\ Interrupted -> 130
                          [] OTHER -> IF InputError \/ ParseError \/ pc = "raised" THEN 1 ELSE 0)
        /\ (exit_code = 0 /\ ~args.help) =>
              pc = "returned" /\ Len(console_out) > 0 /\ ~InputError /\ ~ParseError
        /\ exit_code \in {2, 130} \/ args.help => pc = "start"

\* main read malformed JSON from stdin and ended with exit code 1
C11_Witness ==
    /\ main_pc = "exited" /\ exit_code = 1
    /\ FromStdin /\ env.text = <<"{">>
    /\ ~Interrupted
    /\ main_out[Len(main_out) - 1] = Printed("Error: {}", "JSONDecodeError")

---------------------------------------------------------------------------
\* main has just loaded message_in from the text it read
Loaded == main_pc = "visualize"

\* the JSON value the text read stands for
Document == CHOOSE v \in JsonDocuments : json_dumps(v) = env.text

\* the content blocks of the document, none when it has no content
DocumentBlocks ==
    IF HasKey(Document, S_content) THEN DictGet(Document, S_content, PyNone).val ELSE <<>>

\* the document is a key-value input whose content is absent or a sequence
ListContent ==
    /\ Document.ty = "dict"
    /\ HasKey(Document, S_content) => DictGet(Document, S_content, PyNone).ty = "list"

---------------------------------------------------------------------------
\* the lines under a node: the first text of each child's label and the
\* value interpolated after it
Lines(node) ==
    [j \in 1..Len(node.children) |->
        [line |-> node.children[j].label[1].fmt,
         arg |-> IF Len(node.children[j].label) > 1 THEN node.children[j].label[2].arg
                 ELSE <<>>]]

Line(line, arg) == [line |-> line, arg |-> arg]

\* v is present and non-empty
NonEmpty(v) == v.ty \in {"str", "dict", "list"} /\ Len(v.val) > 0

\* the label of the specification for a caller: its type resolved through
\* the label mapping ("unknown" when the caller has no type)
CallerLabelOf(caller) ==
    LET type == DictGet(caller, S_type, PyString(S_unknown)).val
    IN  IF type = S_code_execution_20250825
        THEN <<"c", "o", "d", "e", " ", "e", "x", "e", "c", "u", "t", "i", "o", "n", " ",
               "e", "n", "v", "i", "r", "o", "n", "m", "e", "n", "t">>
        ELSE IF type = S_direct
        THEN <<"m", "o", "d", "e", "l", " ", "(", "d", "i", "r", "e", "c", "t", ")">>
        ELSE type

\* the ID line and the Caller line of the specification for block i
IdLine(i) == IF NonEmpty(Field(i, S_id)) THEN <<Line("ID:", Field(i, S_id).val)>> ELSE <<>>
CallerLine(i) ==
    IF NonEmpty(Field(i, S_caller))
    THEN <<Line("Caller:", CallerLabelOf(Field(i, S_caller)))>> ELSE <<>>

(* C13: for a tool_use block whose caller is absent or a key-value        *)
(* object, render_tool_use emits one node labelled with the tool name     *)
(* ("unknown" when absent) holding, in this order, an ID line iff id is   *)
(* non-empty, a Caller line iff caller is non-empty, labelled "code       *)
(* execution environment" for type code_execution_20250825, "model        *)
(* (direct)" for type direct and the type verbatim otherwise, and an      *)
(* Input sub-node iff input is non-empty; nothing else.                    *)
C13_ToolUse ==
    \A i \in 1..NumBlocks :
        (Reached(i) /\ KindIs(i, S_tool_use)
         /\ Field(i, S_caller).ty \in {"absent", "dict"}) =>
            LET name == Field(i, S_name)
                InputLine == IF NonEmpty(Field(i, S_input)) THEN <<Line("Input:", <<>>)>>
                             ELSE <<>>
                F(node) ==
                    /\ Fmts(node.label) = <<"Tool Use:", " ", "{}">>
                    /\ node.label[3].arg = (IF name.ty = "absent" THEN S_unknown ELSE name.val)
                    /\ Lines(node) = IdLine(i) \o CallerLine(i) \o InputLine
                    /\ \A j \in 1..Len(node.children) :
                          Len(node.children[j].children)
                            = (IF node.children[j].label[1].fmt = "Input:" THEN 1 ELSE 0)
            IN  Rendered(i) /\ Len(Wrappers[i].children) = 1 /\ F(Wrappers[i].children[1])

\* a tool_use block with an id and a caller of type direct was rendered
\* with the lines ID: t1 and Caller: model (direct)
C13_Witness ==
    /\ pc = "returned" /\ NumBlocks = 1 /\ KindIs(1, S_tool_use)
    /\ Field(1, S_caller) = PyDict(<<KV(S_type, PyString(S_direct))>>)
    /\ Lines(Wrappers[1].children[1])
         = <<Line("ID:", <<"t", "1">>),
             Line("Caller:", <<"m", "o", "d", "e", "l", " ", "(", "d", "i", "r", "e", "c", "t", ")">>)>>

---------------------------------------------------------------------------
\* the ID and Caller lines under a node
IdAndCallerLines(node) == SelectSeq(Lines(node), LAMBDA l : l.line \in {"ID:", "Caller:"})

\* the node render_tool_use emits for the id and the caller of block i
ToolUseTwin(i) ==
    render_tool_use(ParsedContent(PyString(S_tool_use),
                                  DictOf(<<KV(S_type, PyString(S_tool_use)),
                                           KV(S_id, Field(i, S_id)),
                                           KV(S_caller, Field(i, S_caller))>>)),
                    Tree(<<>>), DARK_THEME).tree.children[1]

(* C14: for every id and every caller (absent or a key-value object),     *)
(* render_server_tool_use emits the same ID line and the same Caller      *)
(* line, the caller type resolved through the same label mapping, as      *)
(* render_tool_use emits for that id and caller.                           *)
C14_SameLinesAsToolUse ==
    \A i \in 1..NumBlocks :
        (Reached(i) /\ KindIs(i, S_server_tool_use)
         /\ Field(i, S_caller).ty \in {"absent", "dict"}) =>
            /\ Len(Wrappers[i].children) = 1
            /\ IdAndCallerLines(Wrappers[i].children[1]) = IdAndCallerLines(ToolUseTwin(i))

\* a server_tool_use block with a caller of type direct was rendered with
\* the line Caller: direct, where render_tool_use shows Caller: model (direct)
C14_Witness ==
    /\ pc = "returned" /\ NumBlocks = 1 /\ KindIs(1, S_server_tool_use)
    /\ Field(1, S_id) = PyString(<<"t", "1">>)
    /\ Field(1, S_caller) = PyDict(<<KV(S_type, PyString(S_direct))>>)
    /\ IdAndCallerLines(Wrappers[1].children[1])
         = <<Line("ID:", <<"t", "1">>), Line("Caller:", S_direct)>>
    /\ IdAndCallerLines(ToolUseTwin(1))
         = <<Line("ID:", <<"t", "1">>),
             Line("Caller:", <<"m", "o", "d", "e", "l", " ", "(", "d", "i", "r", "e", "c", "t", ")">>)>>

---------------------------------------------------------------------------
\* the Code and Input sub-nodes under a node
CodeNodes(node) == ChildrenWith(node, "Code:")
InputNodes(node) == ChildrenWith(node, "Input:")

\* block i is a server_tool_use block that was rendered and whose input is
\* absent or a key-value object with code absent, null or a string
ServerToolUseCase(i) ==
    /\ Reached(i) /\ KindIs(i, S_server_tool_use)
    /\ Field(i, S_caller).ty \in {"absent", "dict"}
    /\ Field(i, S_input).ty \in {"absent", "dict"}
    /\ Field(i, S_input).ty = "dict" =>
          DictGet(Field(i, S_input), S_code, Absent).ty \in {"absent", "none", "str"}

\* the code of the input of block i, Absent when there is none
CodeOf(i) ==
    IF Field(i, S_input).ty = "dict" THEN DictGet(Field(i, S_input), S_code, Absent)
    ELSE Absent

---------------------------------------------------------------------------
\* the text of a text item ("" when it has none)
ItemText(item) == DictGet(item, S_text, PyString(<<>>))

\* the items of a sequence that have something to show: every item but a
\* text item whose text is empty or absent
ShowingItems(items) ==
    SelectSeq(items, LAMBDA item : ~IsTextItem(item) \/ NonEmpty(ItemText(item)))

\* block i is a tool_result block whose content is absent, a string, or a
\* sequence whose text items hold a string (or no text)
ToolResultCase(i) ==
    /\ Reached(i) /\ KindIs(i, S_tool_result)
    /\ Field(i, S_content).ty \in {"absent", "str", "list"}
    /\ Field(i, S_content).ty = "list" =>
          \A k \in 1..Len(Field(i, S_content).val) :
              IsTextItem(Field(i, S_content).val[k]) =>
                  ItemText(Field(i, S_content).val[k]).ty = "str"

---------------------------------------------------------------------------
(* C17: for a code_execution_tool_result block whose nested content is    *)
(* present but not a key-value object, render_code_execution_result does  *)
(* not raise and emits one "Code Execution Result" node whose only child  *)
(* is the serialization of the entire payload (cut at 500 characters),    *)
(* with no status, stdout, stderr or "(no output)" node.                   *)
C17_NestedContentFallback ==
    \A i \in 1..NumBlocks :
        (Reached(i) /\ KindIs(i, S_code_execution_tool_result)
         /\ Field(i, S_content).ty \notin {"absent", "dict"}) =>
            LET F(node) ==
                    /\ Fmts(node.label) = <<"Code Execution Result">>
                    /\ Len(node.children) = 1
                    /\ node.children[1].kind = "Syntax"
                    /\ node.children[1].lexer = "json"
                    /\ node.children[1].text
                         = TruncationPolicy(json_dumps(message_in.content[i].data), 500,
                                            JsonTruncationMarker)
                    /\ ChildrenWith(node, "stdout:") = <<>>
                    /\ ChildrenWith(node, "stderr:") = <<>>
                    /\ ChildrenWith(node, "(no output)") = <<>>
            IN  Rendered(i) /\ Len(Wrappers[i].children) = 1 /\ F(Wrappers[i].children[1])

\* a block whose nested content is the string "ok" was rendered as the
\* serialization of the block
C17_Witness ==
    /\ pc = "returned" /\ NumBlocks = 1 /\ KindIs(1, S_code_execution_tool_result)
    /\ Field(1, S_content) = PyString(<<"o", "k">>)
    /\ Fmts(Wrappers[1].children[1].label) = <<"Code Execution Result">>
    /\ Wrappers[1].children[1].children[1].text = json_dumps(message_in.content[1].data)

-----------------------------------------------------------------------------
(* The current theme over a sequence of calls. *)

\* the latest visualize_message call rendered message_in with scheme ref
RenderedWith(ref) ==
    LET Same(r) == /\ tree_out = r.tree
                   /\ console_out = r.console
                   /\ exc_out = r.exc
    IN  /\ tree_out.label[1].style = ColorSchemeOf(ref).title
        /\ Same(visualize_message(message_in, ColorSchemeOf(ref)))

\* the predefined schemes, by name
Schemes == {"DARK_THEME", "LIGHT_THEME", "JUPYTER_THEME"}

\* a step in which visualize_message ran and left a new argument or result
RenderStep ==
    /\ pc' # "start"
    /\ <<pc, theme_in, tree_out, console_out, exc_out>>'
           # <<pc, theme_in, tree_out, console_out, exc_out>>

\* the step leaves what visualize_message returns for message_in and scheme ref
RendersWith(ref) ==
    LET Same(r) == /\ tree_out' = r.tree
                   /\ console_out' = r.console
                   /\ exc_out' = r.exc
    IN  Same(visualize_message(message_in, ColorSchemeOf(ref)))

\* the scheme a call without a theme gets: the one the latest set_theme
\* selected, or the AUTO scheme when there is none yet
SelectedScheme == IF current_theme = "None" THEN get_theme("auto", ipython) ELSE current_theme

\* C18: over any sequence of set_theme, get_current_theme and
\* visualize_message calls, a visualize_message call with an explicit theme
\* renders with that theme and leaves the current theme as it was; a call
\* without one renders with the scheme of the latest set_theme, or with the
\* AUTO scheme when none was selected yet; and the current theme is never
\* changed by a call that renders, except that a call without a theme
\* initialises an unset current theme to the AUTO scheme before it renders;
\* once set, the current theme is never unset.
C18_CurrentTheme ==
    [][ /\ (RenderStep /\ theme_in' # "None") =>
               /\ \E ref \in Schemes : ref = theme_in' /\ RendersWith(ref)
               /\ current_theme' = current_theme
        /\ (RenderStep /\ theme_in' = "None") =>
               /\ RendersWith(SelectedScheme)
               /\ current_theme' = SelectedScheme
        /\ current_theme' # current_theme =>
               /\ current_theme' # "None"
               /\ RenderStep => /\ current_theme = "None"
                                /\ theme_in' = "None"
                                /\ current_theme' = get_theme("auto", ipython)
               /\ current_theme # "None" =>
                      UNCHANGED <<pc, theme_in, tree_out, console_out, exc_out>>
      ]_vars

\* a call with an explicit theme rendered with it while no current theme
\* was selected, and none is selected after it
C18_Witness ==
    /\ pc = "returned"
    /\ theme_in = "LIGHT_THEME"
    /\ current_theme = "None"
    /\ RenderedWith("LIGHT_THEME")
    /\ ~RenderedWith(get_theme("auto", ipython))

-----------------------------------------------------------------------------
(* The visualize object as a context manager. *)

\* the responses of the visualize_response calls made, in call order
VisualizedResponses == [i \in 1..Len(visualized) |-> visualized[i].response]

\* how many times r occurs in seq
Times(r, seq) == Cardinality({i \in 1..Len(seq) : seq[i] = r})

\* no visualize_response call raised
NoneRaised == \A i \in 1..Len(visualized) : visualized[i].exc = "none"

\* C19: for a visualize object with auto_show=True used as a context
\* manager, after the capture() calls of the with-block and the block's
\* exit, responses holds the captured responses in capture order and each
\* captured response has been visualized exactly once (as many times as it
\* was captured), no visualization having raised; with auto_show=False
\* neither capture() nor the exit visualizes anything.
C19_VisualizedOnce ==
    /\ (hook_pc = "exited" /\ auto_show /\ NoneRaised) =>
           /\ responses = captured
           /\ \A r \in Responses : Times(r, VisualizedResponses) = Times(r, captured)
    /\ (hook_pc # "none" /\ ~auto_show) =>
           /\ responses = captured
           /\ visualized = <<>>

\* two responses were captured with auto_show=True and the block was left:
\* responses holds them in order, and each was visualized by capture() and
\* again by __exit__
C19_Witness ==
    /\ hook_pc = "exited"
    /\ auto_show
    /\ NoneRaised
    /\ Len(captured) = 2
    /\ captured[1] # captured[2]
    /\ responses = captured
    /\ VisualizedResponses = captured \o captured

=============================================================================
